---- MODULE Spec2Model ----
(***************************************************************************)
(* Catalog reconciliation engine of the Hikvision firmware archive:        *)
(* the device table, the firmware catalog, the ingest and cleanup passes   *)
(* of HikvisionScraper (main.py), the identity resolver (common.py) and    *)
(* the programs that persist the catalog (main.py scrape, fix_and_sync.py).*)
(* Strings are TLA+ strings handled character by character, so that the    *)
(* regular expressions and substring tests of the code are computed, not   *)
(* assumed.                                                                *)
(***************************************************************************)
EXTENDS Integers, Sequences, FiniteSets, TLC

(***************************************************************************)
(* Bounds of the model.                                                    *)
(***************************************************************************)
\* largest number of records in the persisted catalog of the initial state
MaxInitRecords == 1
\* largest number of records in the catalog a single operation is applied to
MaxUnitRecords == 1
\* the candidates of one crawl whose processing raises
MaxRaises == 1
\* the links of the largest site of a long crawl
MaxCandidates == 51
\* the links of the largest site of a crawl that is followed link by link
MaxLinks == 12
\* the downloads of one crawl that fail
MaxFailures == 2

(***************************************************************************)
(* Strings: characters, substrings, case.                                  *)
(***************************************************************************)
Ch(s, i) == SubSeq(s, i, i)

Digits == {"0", "1", "2", "3", "4", "5", "6", "7", "8", "9"}

UpperAlphabet == "ABCDEFGHIJKLMNOPQRSTUVWXYZ"

LowerAlphabet == "abcdefghijklmnopqrstuvwxyz"

UpperLetters == {Ch(UpperAlphabet, i) : i \in 1..26}

LowerLetters == {Ch(LowerAlphabet, i) : i \in 1..26}

\* str.upper() of one character
UpperCh(c) ==
  IF c \in LowerLetters
    THEN Ch(UpperAlphabet, CHOOSE i \in 1..26 : Ch(LowerAlphabet, i) = c)
    ELSE c

\* str.lower() of one character
LowerCh(c) ==
  IF c \in UpperLetters
    THEN Ch(LowerAlphabet, CHOOSE i \in 1..26 : Ch(UpperAlphabet, i) = c)
    ELSE c

RECURSIVE Upper(_)
Upper(s) == IF s = "" THEN "" ELSE UpperCh(Ch(s, 1)) \o Upper(SubSeq(s, 2, Len(s)))

RECURSIVE Lower(_)
Lower(s) == IF s = "" THEN "" ELSE LowerCh(Ch(s, 1)) \o Lower(SubSeq(s, 2, Len(s)))

\* Python's `sub in s`
Contains(sub, s) ==
  \E i \in 1..(Len(s) - Len(sub) + 1) : SubSeq(s, i, i + Len(sub) - 1) = sub

\* Python's s.endswith(suffix)
EndsWith(s, suffix) ==
  /\ Len(suffix) <= Len(s)
  /\ SubSeq(s, Len(s) - Len(suffix) + 1, Len(s)) = suffix

\* Python's s.replace('.', '_')
RECURSIVE ReplaceDots(_)
ReplaceDots(s) ==
  IF s = "" THEN ""
  ELSE (IF Ch(s, 1) = "." THEN "_" ELSE Ch(s, 1)) \o ReplaceDots(SubSeq(s, 2, Len(s)))

\* positions of character c in s
Positions(s, c) == {i \in 1..Len(s) : Ch(s, i) = c}

Max(S) == CHOOSE x \in S : \A y \in S : y <= x

Min(S) == CHOOSE x \in S : \A y \in S : x <= y

\* Python's s.split(c)[-1]
AfterLast(s, c) ==
  IF Positions(s, c) = {} THEN s ELSE SubSeq(s, Max(Positions(s, c)) + 1, Len(s))

\* Python's s.split(c)[0]
BeforeFirst(s, c) ==
  IF Positions(s, c) = {} THEN s ELSE SubSeq(s, 1, Min(Positions(s, c)) - 1)

\* download_url.split('/')[-1].split('?')[0]
UrlFilename(url) == BeforeFirst(AfterLast(url, "/"), "?")

(***************************************************************************)
(* Regular expressions of the extractor, matched as re.search matches      *)
(* them: leftmost start, greedy repetition. None is the empty string.      *)
(***************************************************************************)
\* the character at position i, empty outside the string
At(s, i) == IF i \in 1..Len(s) THEN SubSeq(s, i, i) ELSE ""

\* the last index of the run of digits starting at i (i - 1 when there is none)
RECURSIVE DigitRunEnd(_, _)
DigitRunEnd(s, i) == IF At(s, i) \in Digits THEN DigitRunEnd(s, i + 1) ELSE i - 1

\* \d+\.\d+\.\d+(?:\.\d+)? matched at position i: the index of its last
\* character, 0 when it does not match there
VersionEnd(s, i) ==
  LET e1 == DigitRunEnd(s, i)
      e2 == DigitRunEnd(s, e1 + 2)
      e3 == DigitRunEnd(s, e2 + 2)
      e4 == DigitRunEnd(s, e3 + 2)
  IN  IF /\ e1 >= i
         /\ At(s, e1 + 1) = "."
         /\ e2 >= e1 + 2
         /\ At(s, e2 + 1) = "."
         /\ e3 >= e2 + 2
        THEN (IF At(s, e3 + 1) = "." /\ e4 >= e3 + 2 THEN e4 ELSE e3)
        ELSE 0

\* re.search(r'V(\d+\.\d+\.\d+(?:\.\d+)?)', filename, re.IGNORECASE): group 1
VersionFromFilename(filename) ==
  LET starts == {i \in 1..Len(filename) :
                   At(filename, i) \in {"V", "v"} /\ VersionEnd(filename, i + 1) > 0}
  IN  IF starts = {} THEN ""
      ELSE SubSeq(filename, Min(starts) + 1, VersionEnd(filename, Min(starts) + 1))

\* [0-9A-Z-] under re.IGNORECASE
ModelChars == Digits \cup UpperLetters \cup LowerLetters \cup {"-"}

RECURSIVE ModelRunEnd(_, _)
ModelRunEnd(s, i) == IF At(s, i) \in ModelChars THEN ModelRunEnd(s, i + 1) ELSE i - 1

\* (DS-[0-9A-Z-]+|AE-[0-9A-Z-]+|IDS-[0-9A-Z-]+) matched at position i: the
\* index of its last character, 0 when it does not match there
ModelEnd(s, i) ==
  LET p3 == IF i + 2 <= Len(s) THEN Upper(SubSeq(s, i, i + 2)) ELSE ""
      p4 == IF i + 3 <= Len(s) THEN Upper(SubSeq(s, i, i + 3)) ELSE ""
      body == IF p3 \in {"DS-", "AE-"} THEN i + 3 ELSE IF p4 = "IDS-" THEN i + 4 ELSE 0
  IN  IF body > 0 /\ ModelRunEnd(s, body) >= body THEN ModelRunEnd(s, body) ELSE 0

\* match.group(1).upper() of the model pattern, None as ""
extract_model(text) ==
  LET starts == {i \in 1..Len(text) : ModelEnd(text, i) > 0}
  IN  IF starts = {} THEN ""
      ELSE Upper(SubSeq(text, Min(starts), ModelEnd(text, Min(starts))))

\* re.search(r'(\d{6}|\d{8})', text): group 1 (the six-digit alternative is
\* tried first at every position)
DateCode(text) ==
  LET six == {i \in 1..Len(text) : DigitRunEnd(text, i) >= i + 5}
      eight == {i \in 1..Len(text) : DigitRunEnd(text, i) >= i + 7}
      starts == six \cup eight
  IN  IF starts = {} THEN ""
      ELSE IF Min(starts) \in six THEN SubSeq(text, Min(starts), Min(starts) + 5)
      ELSE SubSeq(text, Min(starts), Min(starts) + 7)

\* the digits of the date of a file name as they stand in the name
UnformattedDate(filename) == DateCode(filename)

\* the date of a file name as the sync passes build it
DateFromFilename(filename) ==
  LET date_code == DateCode(filename)
  IN  IF Len(date_code) = 6
        THEN "20" \o SubSeq(date_code, 1, 2) \o "-" \o SubSeq(date_code, 3, 4)
               \o "-" \o SubSeq(date_code, 5, 6)
      ELSE IF Len(date_code) = 8
        THEN SubSeq(date_code, 1, 4) \o "-" \o SubSeq(date_code, 5, 6)
               \o "-" \o SubSeq(date_code, 7, 8)
      ELSE ""

IsDigitString(s) == \A i \in 1..Len(s) : Ch(s, i) \in Digits

\* common.format_date on the empty string, on YYMMDD and YYYYMMDD digit
\* strings and on a zero-padded YYYY-MM-DD date, which strptime and strftime
\* give back unchanged; any other text is returned as it is
format_date(date_str) ==
  IF date_str = "" THEN ""
  ELSE IF Len(date_str) = 6 /\ IsDigitString(date_str)
    THEN "20" \o SubSeq(date_str, 1, 2) \o "-" \o SubSeq(date_str, 3, 4)
           \o "-" \o SubSeq(date_str, 5, 6)
  ELSE IF Len(date_str) = 8 /\ IsDigitString(date_str)
    THEN SubSeq(date_str, 1, 4) \o "-" \o SubSeq(date_str, 5, 6)
           \o "-" \o SubSeq(date_str, 7, 8)
  ELSE date_str

DigitSeq == <<"0", "1", "2", "3", "4", "5", "6", "7", "8", "9">>

\* str(n)
RECURSIVE Decimal(_)
Decimal(n) == IF n < 10 THEN DigitSeq[n + 1] ELSE Decimal(n \div 10) \o DigitSeq[(n % 10) + 1]

\* the value of a digit
DigitValue(c) == CHOOSE d \in 0..9 : DigitSeq[d + 1] = c

\* s.replace(c, '')
RECURSIVE RemoveChar(_, _)
RemoveChar(s, c) ==
  IF s = "" THEN ""
  ELSE (IF Ch(s, 1) = c THEN "" ELSE Ch(s, 1)) \o RemoveChar(SubSeq(s, 2, Len(s)), c)

\* the characters \s matches
Whitespace == {" ", "\n", "\t"}

\* s.strip()
RECURSIVE Strip(_)
Strip(s) ==
  IF s = "" THEN ""
  ELSE IF Ch(s, 1) \in Whitespace THEN Strip(SubSeq(s, 2, Len(s)))
  ELSE IF Ch(s, Len(s)) \in Whitespace THEN Strip(SubSeq(s, 1, Len(s) - 1))
  ELSE s

\* [\s_]build[\s_]\d+ matched at position i: the index of its last character,
\* 0 when it does not match there (the pattern is in lower case and is
\* matched without re.IGNORECASE)
BuildInfoEnd(s, i) ==
  IF /\ At(s, i) \in {" ", "_"}
     /\ i + 5 <= Len(s)
     /\ SubSeq(s, i + 1, i + 5) = "build"
     /\ At(s, i + 6) \in {" ", "_"}
     /\ DigitRunEnd(s, i + 7) >= i + 7
    THEN DigitRunEnd(s, i + 7)
    ELSE 0

\* re.sub(r'[\s_]build[\s_]\d+', '', s) from position i on
RECURSIVE RemoveBuildInfo(_, _)
RemoveBuildInfo(s, i) ==
  IF i > Len(s) THEN ""
  ELSE IF BuildInfoEnd(s, i) > 0 THEN RemoveBuildInfo(s, BuildInfoEnd(s, i) + 1)
  ELSE Ch(s, i) \o RemoveBuildInfo(s, i + 1)

\* re.sub(r'_\d{6,8}$', '', s)
RemoveDateSuffix(s) ==
  LET starts == {i \in 1..Len(s) :
                   /\ Ch(s, i) = "_"
                   /\ Len(s) - i \in 6..8
                   /\ DigitRunEnd(s, i + 1) = Len(s)}
  IN  IF starts = {} THEN s ELSE SubSeq(s, 1, Min(starts) - 1)

\* s.split('.')
RECURSIVE SplitDots(_)
SplitDots(s) ==
  IF Positions(s, ".") = {} THEN <<s>>
  ELSE <<SubSeq(s, 1, Min(Positions(s, ".")) - 1)>>
         \o SplitDots(SubSeq(s, Min(Positions(s, ".")) + 1, Len(s)))

\* the text int() reads: without the whitespace around it and without a sign
IntBody(part) ==
  LET t == Strip(part)
  IN  IF At(t, 1) \in {"+", "-"} THEN SubSeq(t, 2, Len(t)) ELSE t

\* int(part) does not raise ValueError: digits, with single underscores
\* between them
IsIntLiteral(part) ==
  LET b == IntBody(part)
  IN  /\ b # ""
      /\ \A i \in 1..Len(b) : Ch(b, i) \in Digits \cup {"_"}
      /\ Ch(b, 1) \in Digits
      /\ Ch(b, Len(b)) \in Digits
      /\ ~Contains("__", b)

\* the number a string of digits stands for
RECURSIVE DigitsValue(_)
DigitsValue(b) ==
  IF b = "" THEN 0 ELSE 10 * DigitsValue(SubSeq(b, 1, Len(b) - 1)) + DigitValue(Ch(b, Len(b)))

\* int(part)
IntOf(part) ==
  LET n == DigitsValue(RemoveChar(IntBody(part), "_"))
  IN  IF At(Strip(part), 1) = "-" THEN 0 - n ELSE n

\* common.parse_version
parse_version(version_str) ==
  LET stripped == Strip(RemoveChar(Upper(version_str), "V"))
      parts == SplitDots(RemoveDateSuffix(RemoveBuildInfo(stripped, 1)))
  IN  IF \A i \in 1..Len(parts) : IsIntLiteral(parts[i])
        THEN [i \in 1..Len(parts) |-> IntOf(parts[i])]
        ELSE <<0, 0, 0>>

\* common.is_beta_firmware
is_beta_firmware(version, notes) ==
  \E indicator \in {"beta", "test", "alpha", "rc", "preview"} :
    Contains(indicator, Lower(version)) \/ Contains(indicator, Lower(notes))

\* the four firmware archive extensions
FirmwareExtensions == {".zip", ".dav", ".pak", ".bin"}

(***************************************************************************)
(* The device table (devices.json) and the identity resolver.  A Python    *)
(* dict keeps insertion order, so the table is the sequence of its         *)
(* entries, each carrying its integer id.                                  *)
(***************************************************************************)
\* get_device_id returns None
NoDevice == -1

\* ids of new devices start here
FirstDeviceId == 100000

\* scrape() saves after every so many processed candidates
CheckpointEvery == 50

\* the new firmwares one crawl may download
MAX_FIRMWARES_TO_DOWNLOAD == 10

Range(seq) == {seq[i] : i \in 1..Len(seq)}

DeviceIds(devs) == {devs[i].id : i \in 1..Len(devs)}

\* max_id of create_device_id: the largest id of the table, 0 without one
LargestId(devs) == Max(DeviceIds(devs) \cup {0})

\* common.get_device_id: the id of the first entry with this pair
get_device_id(devs, model, hardware_version) ==
  LET hits == {i \in 1..Len(devs) :
                 devs[i].model = model /\ devs[i].hardware_version = hardware_version}
  IN  IF hits = {} THEN NoDevice ELSE devs[Min(hits)].id

\* an allocation that forgets the floor of 100000
NewDeviceIdWithoutFloor(devs) ==
  IF devs = <<>> THEN 1 ELSE Max(DeviceIds(devs) \cup {0}) + 1

\* the id create_device_id allocates
NewDeviceId(devs) ==
  LET max_id == IF devs = <<>> THEN 0 ELSE Max(DeviceIds(devs) \cup {0})
  IN  IF max_id + 1 > FirstDeviceId THEN max_id + 1 ELSE FirstDeviceId

\* common.create_device_id: the table with the new entry
create_device_id(devs, model, hardware_version) ==
  Append(devs, [id |-> NewDeviceId(devs), model |-> model,
                hardware_version |-> hardware_version])

\* a resolve step that allocates without looking the pair up
ResolveDevicesWithoutLookup(devs, model, hardware_version) ==
  create_device_id(devs, model, hardware_version)

\* "device_id = get_device_id(...); if device_id is None: create_device_id(...)"
\* as every ingest path does it: the table afterwards
ResolveDevices(devs, model, hardware_version) ==
  IF get_device_id(devs, model, hardware_version) = NoDevice
    THEN create_device_id(devs, model, hardware_version)
    ELSE devs

\* ... and the id it yields
ResolveId(devs, model, hardware_version) ==
  IF get_device_id(devs, model, hardware_version) = NoDevice
    THEN NewDeviceId(devs)
    ELSE get_device_id(devs, model, hardware_version)

(***************************************************************************)
(* The catalog (firmwares_live.json): the sequence of the dict's entries   *)
(* in insertion order, each record carrying its key.                       *)
(***************************************************************************)
\* a key that leaves the hardware version out
FirmwareKeyWithoutHardware(model, hardware_version, version) ==
  model \o "_" \o version

\* f"{model}_{hw_version}_{version}"
FirmwareKey(model, hardware_version, version) ==
  model \o "_" \o hardware_version \o "_" \o version

Keys(cat) == {cat[i].key : i \in 1..Len(cat)}

\* the index of the entry with this key, 0 when there is none
KeyIndex(cat, key) ==
  LET hits == {i \in 1..Len(cat) : cat[i].key = key}
  IN  IF hits = {} THEN 0 ELSE Min(hits)

\* self.firmwares_live[key] = record: a new key is appended, an existing key
\* keeps its place and gets the new value
SetRecord(cat, rec) ==
  IF KeyIndex(cat, rec.key) = 0 THEN Append(cat, rec)
  ELSE [cat EXCEPT ![KeyIndex(cat, rec.key)] = rec]

\* del self.firmwares_live[key] for every key in keys_to_remove
RemoveKeys(cat, keys_to_remove) ==
  SelectSeq(cat, LAMBDA rec : rec.key \notin keys_to_remove)

(***************************************************************************)
(* release.generate_readme: the listing of the two catalog documents.      *)
(***************************************************************************)
\* the characters of the texts that are compared, in code point order
Ascii == " +-./0123456789:ABCDEFGHIJKLMNOPQRSTUVWXYZ_abcdefghijklmnopqrstuvwxyz"

CodePoint(c) == CHOOSE i \in 1..Len(Ascii) : Ch(Ascii, i) = c

\* a < b on str
RECURSIVE StrLess(_, _)
StrLess(a, b) ==
  IF b = "" THEN FALSE
  ELSE IF a = "" THEN TRUE
  ELSE IF Ch(a, 1) = Ch(b, 1) THEN StrLess(SubSeq(a, 2, Len(a)), SubSeq(b, 2, Len(b)))
  ELSE CodePoint(Ch(a, 1)) < CodePoint(Ch(b, 1))

\* a < b on tuples of int
RECURSIVE TupleLess(_, _)
TupleLess(a, b) ==
  IF b = <<>> THEN FALSE
  ELSE IF a = <<>> THEN TRUE
  ELSE IF a[1] = b[1] THEN TupleLess(Tail(a), Tail(b))
  ELSE a[1] < b[1]

\* key(f) < key(g) for key = (date, parse_version(version))
SortKeyLess(f, g) ==
  \/ StrLess(f.date, g.date)
  \/ f.date = g.date /\ TupleLess(parse_version(f.version), parse_version(g.version))

\* firmwares.sort(key=..., reverse=True): equal keys keep their order
RECURSIVE SortNewestFirst(_)
SortNewestFirst(firmwares) ==
  IF firmwares = <<>> THEN <<>>
  ELSE LET head == SortNewestFirst(SubSeq(firmwares, 1, Len(firmwares) - 1))
           f == firmwares[Len(firmwares)]
           n == Cardinality({i \in 1..Len(head) : ~SortKeyLess(head[i], f)})
       IN  SubSeq(head, 1, n) \o <<f>> \o SubSeq(head, n + 1, Len(head))

\* {**firmwares_live, **firmwares_manual}
RECURSIVE MergeDocuments(_, _)
MergeDocuments(live, manual) ==
  IF manual = <<>> THEN live
  ELSE MergeDocuments(SetRecord(live, Head(manual)), Tail(manual))

\* "if device_id:" on firmware_data.get('device_id')
HasDeviceId(firmware_data) == firmware_data.device_id \notin {NoDevice, 0}

\* the keys of device_firmwares, in the order they were first seen
RECURSIVE GroupedDeviceIds(_)
GroupedDeviceIds(listed) ==
  IF listed = <<>> THEN <<>>
  ELSE LET head == GroupedDeviceIds(SubSeq(listed, 1, Len(listed) - 1))
           device_id == listed[Len(listed)].device_id
       IN  IF device_id \in Range(head) THEN head ELSE Append(head, device_id)

\* device_firmwares[device_id]
DeviceFirmwares(listed, device_id) ==
  SelectSeq(listed, LAMBDA f : f.device_id = device_id)

\* device_info_map[device_id]: taken from the first record of the device
DeviceInfo(listed, device_id) ==
  [model |-> DeviceFirmwares(listed, device_id)[1].model,
   hardware_version |-> DeviceFirmwares(listed, device_id)[1].hardware_version]

\* (model, hardware_version) of a < that of b
DeviceInfoLess(a, b) ==
  \/ StrLess(a.model, b.model)
  \/ a.model = b.model /\ StrLess(a.hardware_version, b.hardware_version)

\* sorted(device_firmwares.keys(), key=...)
RECURSIVE SortDeviceIds(_, _)
SortDeviceIds(listed, ids) ==
  IF ids = <<>> THEN <<>>
  ELSE LET head == SortDeviceIds(listed, SubSeq(ids, 1, Len(ids) - 1))
           d == ids[Len(ids)]
           n == Cardinality({i \in 1..Len(head) :
                               ~DeviceInfoLess(DeviceInfo(listed, d),
                                               DeviceInfo(listed, head[i]))})
       IN  SubSeq(head, 1, n) \o <<d>> \o SubSeq(head, n + 1, Len(head))

\* total_count after the sections from position i on
RECURSIVE CountRows(_, _)
CountRows(sections, i) ==
  IF i > Len(sections) THEN 0 ELSE Len(sections[i].rows) + CountRows(sections, i + 1)

\* release.generate_readme: the sections of the listing and the total
generate_readme(firmwares_live_doc, firmwares_manual_doc) ==
  LET all_firmwares == MergeDocuments(firmwares_live_doc, firmwares_manual_doc)
      listed == SelectSeq(all_firmwares, HasDeviceId)
      sorted_device_ids == SortDeviceIds(listed, GroupedDeviceIds(listed))
      sections == [i \in 1..Len(sorted_device_ids) |->
                     [device_id |-> sorted_device_ids[i],
                      model |-> DeviceInfo(listed, sorted_device_ids[i]).model,
                      rows |-> SortNewestFirst(DeviceFirmwares(listed, sorted_device_ids[i]))]]
  IN  [sections |-> sections, total_count |-> CountRows(sections, 1)]

\* the record an ingest path builds
FirmwareRecord(device_id, model, hardware_version, version, date, download_url, filename, supported_models, applied_to, changes, notes, source) ==
  [key |-> FirmwareKey(model, hardware_version, version),
   device_id |-> device_id,
   model |-> model,
   hardware_version |-> hardware_version,
   version |-> version,
   date |-> date,
   download_url |-> download_url,
   filename |-> filename,
   supported_models |-> supported_models,
   applied_to |-> applied_to,
   changes |-> changes,
   notes |-> notes,
   is_beta |-> is_beta_firmware(version, notes),
   source |-> source]

\* Path(local_file_path).name
PathName(path) == AfterLast(path, "/")

\* process_firmware without its test "if key not in self.firmwares_live"
process_firmware_overwriting(cat, devs, fw_data) ==
  IF fw_data.model = "" \/ fw_data.version = "" THEN [fw |-> cat, dev |-> devs]
  ELSE IF fw_data.local_file_path = "" THEN [fw |-> cat, dev |-> devs]
  ELSE [fw |-> SetRecord(cat,
                 FirmwareRecord(ResolveId(devs, fw_data.model, fw_data.hardware_version),
                                fw_data.model, fw_data.hardware_version, fw_data.version,
                                format_date(fw_data.date), fw_data.download_url,
                                IF fw_data.filename = "" THEN PathName(fw_data.local_file_path)
                                ELSE fw_data.filename,
                                fw_data.supported_models, fw_data.applied_to,
                                fw_data.changes, fw_data.notes, fw_data.source)),
        dev |-> ResolveDevices(devs, fw_data.model, fw_data.hardware_version)]

\* process_firmware without its test "if not all([model, version])"
process_firmware_unchecked(cat, devs, fw_data) ==
  IF fw_data.local_file_path = "" THEN [fw |-> cat, dev |-> devs]
  ELSE
    LET key == FirmwareKey(fw_data.model, fw_data.hardware_version, fw_data.version)
        device_id == ResolveId(devs, fw_data.model, fw_data.hardware_version)
    IN  [fw |-> IF key \in Keys(cat) THEN cat
                ELSE Append(cat,
                       FirmwareRecord(device_id, fw_data.model, fw_data.hardware_version,
                                      fw_data.version, format_date(fw_data.date),
                                      fw_data.download_url, PathName(fw_data.local_file_path),
                                      fw_data.supported_models, fw_data.applied_to,
                                      fw_data.changes, fw_data.notes, fw_data.source)),
         dev |-> ResolveDevices(devs, fw_data.model, fw_data.hardware_version)]

\* HikvisionScraper.process_firmware: the catalog and device table afterwards
process_firmware(cat, devs, fw_data) ==
  IF fw_data.model = "" \/ fw_data.version = "" THEN [fw |-> cat, dev |-> devs]
  ELSE IF fw_data.local_file_path = "" THEN [fw |-> cat, dev |-> devs]
  ELSE
    LET model == fw_data.model
        hw_version == fw_data.hardware_version
        version == fw_data.version
        device_id == ResolveId(devs, model, hw_version)
        devs2 == ResolveDevices(devs, model, hw_version)
        key == FirmwareKey(model, hw_version, version)
        filename == IF fw_data.filename = "" THEN PathName(fw_data.local_file_path)
                    ELSE fw_data.filename
    IN  IF key \notin Keys(cat)
          THEN [fw |-> Append(cat,
                         FirmwareRecord(device_id, model, hw_version, version,
                                        format_date(fw_data.date), fw_data.download_url,
                                        filename, fw_data.supported_models,
                                        fw_data.applied_to, fw_data.changes,
                                        fw_data.notes, fw_data.source)),
                dev |-> devs2]
          ELSE [fw |-> cat, dev |-> devs2]

(***************************************************************************)
(* The firmware directory and the remote release listing.                  *)
(***************************************************************************)
\* firmware_dir.glob('*.zip'), ... : the names with one of the four extensions
FirmwareFiles(dir) ==
  IF dir.exists
    THEN {f \in dir.names : \E ext \in FirmwareExtensions : EndsWith(f, ext)}
    ELSE {}

\* (firmware_dir / filename).exists()
LocalFileExists(dir, filename) == dir.exists /\ filename \in dir.names

\* the asset names kept by sync_github_releases
ReleaseFilenames(rel) ==
  {f \in rel.assets :
     f # "" /\ \E ext \in FirmwareExtensions : EndsWith(Lower(f), ext)}

\* the orders in which a loop can visit a set
Orders(S) ==
  {ord \in [1..Cardinality(S) -> S] : \A x \in S : \E i \in 1..Cardinality(S) : ord[i] = x}

\* the place of a file's extension in ['.zip', '.dav', '.pak', '.bin']
ExtensionRank(f) ==
  IF EndsWith(f, ".zip") THEN 1
  ELSE IF EndsWith(f, ".dav") THEN 2
  ELSE IF EndsWith(f, ".pak") THEN 3
  ELSE 4

\* the orders of the dict firmware_files of sync_firmwares_directory: one
\* glob per extension, each in the order the file system lists the names
DirectoryOrders(dir) ==
  {ord \in Orders(FirmwareFiles(dir)) :
     \A i, j \in 1..Len(ord) : i < j => ExtensionRank(ord[i]) <= ExtensionRank(ord[j])}

GITHUB_DOWNLOAD == "https://github.com/JoeyGE0/hikvision-fw-archive/releases/latest/download/"

(***************************************************************************)
(* sync_github_releases                                                    *)
(***************************************************************************)
\* the body of "for filename in release_filenames" for one file
GithubSyncFile(st, rel, filename) ==
  IF \E i \in 1..Len(st.fw) : st.fw[i].filename = filename THEN st
  ELSE
    LET has_info == filename \in DOMAIN rel.info
        model == IF has_info THEN rel.info[filename].model ELSE extract_model(filename)
        version == IF has_info THEN rel.info[filename].version
                   ELSE VersionFromFilename(filename)
        note_date == IF has_info THEN rel.info[filename].date ELSE ""
        date_str == IF note_date = "" THEN DateFromFilename(filename) ELSE note_date
        hw_version == "UNKNOWN"
    IN  IF model = "" \/ version = "" THEN st
        ELSE [fw |-> SetRecord(st.fw,
                       FirmwareRecord(ResolveId(st.dev, model, hw_version), model,
                                      hw_version, version, date_str,
                                      GITHUB_DOWNLOAD \o filename, filename, <<model>>,
                                      "", "", "Synced from GitHub releases",
                                      "github_releases_sync")),
              dev |-> ResolveDevices(st.dev, model, hw_version)]

RECURSIVE GithubSyncLoop(_, _, _, _)
GithubSyncLoop(st, rel, ord, i) ==
  IF i > Len(ord) THEN st
  ELSE GithubSyncLoop(GithubSyncFile(st, rel, ord[i]), rel, ord, i + 1)

\* "Clean up entries that claim files exist in releases but don't"
GithubStaleKeys(cat, rel, dir) ==
  {cat[i].key : i \in {j \in 1..Len(cat) :
      /\ cat[j].filename # ""
      /\ Contains("github.com", cat[j].download_url)
      /\ cat[j].filename \notin ReleaseFilenames(rel)
      /\ ~LocalFileExists(dir, cat[j].filename)}}

\* a sync that goes on with whatever listing it has after a failed fetch
sync_github_releases_unguarded(st, rel, dir, ord) ==
  LET added == GithubSyncLoop(st, rel, ord, 1)
  IN  [fw |-> RemoveKeys(added.fw, GithubStaleKeys(added.fw, rel, dir)),
       dev |-> added.dev]

\* HikvisionScraper.sync_github_releases, its loop visiting the assets in
\* the order ord
sync_github_releases(st, rel, dir, ord) ==
  IF ~rel.ok THEN st
  ELSE
    LET added == GithubSyncLoop(st, rel, ord, 1)
    IN  [fw |-> RemoveKeys(added.fw, GithubStaleKeys(added.fw, rel, dir)),
         dev |-> added.dev]

(***************************************************************************)
(* sync_firmwares_directory                                                *)
(***************************************************************************)
\* the first entry that the "match by version" loop fills in, 0 when none
VersionMatchIndex(cat, filename) ==
  LET version == VersionFromFilename(filename)
      hits == {i \in 1..Len(cat) :
                 version # "" /\ cat[i].version = version /\ cat[i].filename = ""}
  IN  IF hits = {} THEN 0 ELSE Min(hits)

\* the body of "for filename, filepath in firmware_files.items()" for one file
DirectorySyncFile(st, filename) ==
  IF \E i \in 1..Len(st.fw) : st.fw[i].filename = filename THEN st
  ELSE IF VersionMatchIndex(st.fw, filename) # 0
    THEN [st EXCEPT !.fw[VersionMatchIndex(st.fw, filename)].filename = filename]
  ELSE
    LET version == VersionFromFilename(filename)
        model == extract_model(filename)
        hw_version == "UNKNOWN"
        key == FirmwareKey(model, hw_version, version)
        devs2 == ResolveDevices(st.dev, model, hw_version)
    IN  IF model = "" \/ version = "" THEN st
        ELSE IF key \in Keys(st.fw)
          THEN [fw |-> IF st.fw[KeyIndex(st.fw, key)].filename = ""
                         THEN [st.fw EXCEPT ![KeyIndex(st.fw, key)].filename = filename]
                         ELSE st.fw,
                dev |-> devs2]
        ELSE [fw |-> Append(st.fw,
                       FirmwareRecord(ResolveId(st.dev, model, hw_version), model,
                                      hw_version, version, DateFromFilename(filename),
                                      "", filename, <<model>>, "", "",
                                      "Synced from firmware directory",
                                      "directory_sync")),
              dev |-> devs2]

RECURSIVE DirectorySyncLoop(_, _, _)
DirectorySyncLoop(st, ord, i) ==
  IF i > Len(ord) THEN st
  ELSE DirectorySyncLoop(DirectorySyncFile(st, ord[i]), ord, i + 1)

\* HikvisionScraper.sync_firmwares_directory, its loop visiting the files in
\* the order ord
sync_firmwares_directory(st, dir, ord) ==
  IF ~dir.exists THEN st ELSE DirectorySyncLoop(st, ord, 1)

(***************************************************************************)
(* The cleanup passes                                                      *)
(***************************************************************************)
\* the test of cleanup_unknown_entries without "source == 'directory_sync'"
IsInertUnknownOfAnySource(rec, dir) ==
  /\ rec.model = "UNKNOWN"
  /\ ~(rec.filename # "" /\ rec.filename \in FirmwareFiles(dir))
  /\ ~(rec.download_url # "" \/ rec.applied_to # "")

\* the test of cleanup_unknown_entries on one record
IsInertUnknown(rec, dir) ==
  LET has_file == rec.filename # "" /\ rec.filename \in FirmwareFiles(dir)
      has_useful_info == rec.download_url # "" \/ rec.applied_to # ""
  IN  /\ rec.model = "UNKNOWN"
      /\ rec.source = "directory_sync"
      /\ ~has_file
      /\ ~has_useful_info

\* HikvisionScraper.cleanup_unknown_entries
cleanup_unknown_entries(cat, dir) ==
  RemoveKeys(cat, {cat[i].key : i \in {j \in 1..Len(cat) : IsInertUnknown(cat[j], dir)}})

\* "version_pattern in fname.replace('.', '_') or f"V{version}" in fname"
VersionInName(version, fname) ==
  \/ Contains(ReplaceDots(version), ReplaceDots(fname))
  \/ Contains("V" \o version, fname)

\* the first file, in the order ord of the set firmware_files, whose name holds
\* the version; "" when there is none or the version is empty
MatchByVersion(version, ord) ==
  LET hits == {i \in 1..Len(ord) : version # "" /\ VersionInName(version, ord[i])}
  IN  IF hits = {} THEN "" ELSE ord[Min(hits)]

\* what the loop of cleanup_failed_downloads does to one record: "keep",
\* "remove", or "rename" with the file name it is given
FailedDownloadVerdict(rec, ord) ==
  LET firmware_files == Range(ord)
      matched == MatchByVersion(rec.version, ord)
      url_filename == UrlFilename(rec.download_url)
  IN  IF rec.filename # ""
        THEN IF rec.filename \in firmware_files THEN [do |-> "keep", name |-> ""]
             ELSE IF matched # "" THEN [do |-> "rename", name |-> matched]
             ELSE IF rec.model = "UNKNOWN" THEN [do |-> "remove", name |-> ""]
             ELSE [do |-> "keep", name |-> ""]
      ELSE IF rec.download_url # ""
        THEN IF url_filename # "" /\ url_filename \notin firmware_files
               THEN IF matched # "" THEN [do |-> "rename", name |-> matched]
                    ELSE [do |-> "remove", name |-> ""]
               ELSE [do |-> "keep", name |-> ""]
      ELSE IF rec.model = "UNKNOWN" THEN [do |-> "remove", name |-> ""]
      ELSE [do |-> "keep", name |-> ""]

\* HikvisionScraper.cleanup_failed_downloads, the set firmware_files being
\* visited in the order ord
cleanup_failed_downloads(cat, dir, ord) ==
  IF ~dir.exists THEN cat
  ELSE
    LET renamed == [i \in 1..Len(cat) |->
                      IF FailedDownloadVerdict(cat[i], ord).do = "rename"
                        THEN [cat[i] EXCEPT !.filename = FailedDownloadVerdict(cat[i], ord).name]
                        ELSE cat[i]]
        keys_to_remove == {cat[i].key : i \in {j \in 1..Len(cat) :
                             FailedDownloadVerdict(cat[j], ord).do = "remove"}}
    IN  RemoveKeys(renamed, keys_to_remove)

\* a cleanup that deletes every device without records, whatever its model
cleanup_unreferenced_devices(cat, devs, dir) ==
  SelectSeq(devs, LAMBDA d : \E i \in 1..Len(cat) : cat[i].device_id = d.id)

\* HikvisionScraper.cleanup_empty_devices
cleanup_empty_devices(cat, devs, dir) ==
  LET devices_with_firmwares ==
        {cat[i].device_id : i \in {j \in 1..Len(cat) : cat[j].device_id # 0}}
      devices_with_files ==
        {cat[i].device_id : i \in {j \in 1..Len(cat) :
           cat[j].filename \in FirmwareFiles(dir) /\ cat[j].device_id # 0}}
  IN  SelectSeq(devs, LAMBDA d :
        ~ (/\ d.id \notin devices_with_firmwares
           /\ d.id \notin devices_with_files
           /\ d.model = "UNKNOWN"))

\* cleanup_blank_devices.cleanup_blank_devices: a device goes when no record
\* refers to it, or when none of its records has a file on disk or a
\* download_url that is not the license page; its records go with it
cleanup_blank_devices(cat, devs, dir) ==
  LET firmwares_for_device(id) ==
        {i \in 1..Len(cat) : cat[i].device_id # 0 /\ cat[i].device_id = id}
      has_files(id) ==
        \E i \in firmwares_for_device(id) :
          \/ cat[i].filename # "" /\ cat[i].filename \in FirmwareFiles(dir)
          \/ /\ cat[i].download_url # ""
             /\ ~Contains("materials-license-agreement", cat[i].download_url)
      devices_to_remove ==
        {devs[i].id : i \in {j \in 1..Len(devs) :
                               devs[j].id # 0 /\ ~has_files(devs[j].id)}}
  IN  [fw  |-> SelectSeq(cat, LAMBDA rec : rec.device_id \notin devices_to_remove),
       dev |-> SelectSeq(devs, LAMBDA d : d.id \notin devices_to_remove)]

(***************************************************************************)
(* The crawl, as far as the reconciliation needs it: every link of the     *)
(* site whose key is in the catalog or was downloaded earlier in the run   *)
(* yields a candidate without a file; every other link is downloaded into  *)
(* the firmware directory and yields a candidate with its local file.      *)
(***************************************************************************)
\* the candidate of a link that is skipped as existing
ExistingCandidate(link) ==
  [model |-> link.model, hardware_version |-> link.hardware_version,
   version |-> link.version, download_url |-> link.download_url,
   local_file_path |-> "", filename |-> "",
   supported_models |-> <<link.model>>, applied_to |-> link.applied_to,
   date |-> "", changes |-> "", notes |-> "", source |-> "live"]

\* the "Extract date" step of the crawl: the link text first, then the URL
LinkDate(link_text, url) ==
  LET url_code == DateCode(url)
  IN  IF DateCode(link_text) # "" THEN DateFromFilename(link_text)
      ELSE IF Len(url_code) = 8
        THEN SubSeq(url_code, 1, 4) \o "-" \o SubSeq(url_code, 5, 6)
               \o "-" \o SubSeq(url_code, 7, 8)
      ELSE IF Len(url_code) = 6 /\ SubSeq(url_code, 1, 2) \in {"20", "21", "22", "23"}
        THEN "20" \o SubSeq(url_code, 1, 2) \o "-" \o SubSeq(url_code, 3, 4)
               \o "-" \o SubSeq(url_code, 5, 6)
      ELSE ""

\* the candidate of a link whose file was downloaded
DownloadedCandidate(link) ==
  [model |-> link.model, hardware_version |-> link.hardware_version,
   version |-> link.version, download_url |-> link.download_url,
   local_file_path |-> "firmwares/" \o link.suggested_filename,
   filename |-> link.suggested_filename,
   supported_models |-> <<link.model>>, applied_to |-> link.applied_to,
   date |-> LinkDate(link.link_text, link.download_url), changes |-> "",
   notes |-> "", source |-> "live"]

LinkKey(link) == FirmwareKey(link.model, link.hardware_version, link.version)

\* a limit test that lets one download more through
LimitExceeded(count) == MAX_FIRMWARES_TO_DOWNLOAD > 0 /\ count > MAX_FIRMWARES_TO_DOWNLOAD

\* "MAX_FIRMWARES_TO_DOWNLOAD > 0 and new_downloads_count >= MAX_FIRMWARES_TO_DOWNLOAD"
LimitReached(count) == MAX_FIRMWARES_TO_DOWNLOAD > 0 /\ count >= MAX_FIRMWARES_TO_DOWNLOAD

\* the links visited so far: the candidates, the keys downloaded in this run,
\* the names of the files saved and the counter of new downloads
RECURSIVE CrawlLinks(_, _, _, _)
CrawlLinks(cat, links, i, acc) ==
  IF i > Len(links) THEN acc
  ELSE IF LimitReached(acc.new_downloads_count) THEN acc
  ELSE
    LET link == links[i]
        firmware_exists == LinkKey(link) \in Keys(cat)
        firmware_downloaded_this_run == LinkKey(link) \in acc.downloaded_in_this_run
        skipped == [acc EXCEPT !.firmwares = Append(@, ExistingCandidate(link))]
    IN  IF firmware_downloaded_this_run THEN CrawlLinks(cat, links, i + 1, skipped)
        ELSE IF firmware_exists THEN CrawlLinks(cat, links, i + 1, skipped)
        ELSE CrawlLinks(cat, links, i + 1,
               [firmwares |-> Append(acc.firmwares, DownloadedCandidate(link)),
                downloaded_in_this_run |-> acc.downloaded_in_this_run \cup {LinkKey(link)},
                saved |-> acc.saved \cup {link.suggested_filename},
                new_downloads_count |-> acc.new_downloads_count + 1])

\* the "Deduplicate" loop: the first candidate of every (model, hw, version)
RECURSIVE Deduplicate(_, _, _)
Deduplicate(firmwares, i, unique) ==
  IF i > Len(firmwares) THEN unique
  ELSE
    LET fw == firmwares[i]
        seen == \E j \in 1..Len(unique) :
                  /\ unique[j].model = fw.model
                  /\ unique[j].hardware_version = fw.hardware_version
                  /\ unique[j].version = fw.version
    IN  IF seen THEN Deduplicate(firmwares, i + 1, unique)
        ELSE Deduplicate(firmwares, i + 1, Append(unique, fw))

\* HikvisionScraper.scrape_with_playwright: the candidate list it returns and
\* the files it saved
scrape_with_playwright(cat, links) ==
  LET crawl == CrawlLinks(cat, links, 1,
                 [firmwares |-> <<>>, downloaded_in_this_run |-> {}, saved |-> {},
                  new_downloads_count |-> 0])
  IN  [firmwares |-> Deduplicate(crawl.firmwares, 1, <<>>), saved |-> crawl.saved]

\* firmware_dir.mkdir(exist_ok=True) and download.save_as(filepath)
SaveDownloads(dir, saved) ==
  IF saved = {} THEN dir ELSE [exists |-> TRUE, names |-> dir.names \cup saved]

(***************************************************************************)
(* The values the model draws its inputs from.                             *)
(***************************************************************************)
MODEL_A == "DS-2CD2047G2"

VERSION_A == "5.7.0"

\* a file whose name holds a model, a version and a date
FILE_FULL == "DS-2CD2047G2_V5.7.0_220822.zip"

\* a file whose name holds a version and a date but no model
FILE_ANON == "Firmware_V5.7.0_220822.zip"

\* a download URL of the vendor's site
VENDOR_URL == "https://www.hikvision.com/content/dam/hikvision/firmware/IPC_G0_5.7.0.zip"

\* the licence agreement page that stands for a download (release.py)
LICENSE_URL == "https://www.hikvision.com/en/policies/materials-license-agreement/"

(***************************************************************************)
(* release.generate_release_body, and the reading of release bodies by     *)
(* sync_github_releases.  DOWNLOAD_MARK and WARNING_MARK stand for the     *)
(* pictographs U+1F4E5 and U+26A0 U+FE0F, which the writer and the reader  *)
(* both spell out literally.                                               *)
(***************************************************************************)
DOWNLOAD_MARK == "@"

WARNING_MARK == "!"

\* ', '.join(parts)
RECURSIVE JoinComma(_)
JoinComma(parts) ==
  IF parts = <<>> THEN ""
  ELSE IF Len(parts) = 1 THEN parts[1]
  ELSE parts[1] \o ", " \o JoinComma(Tail(parts))

\* the "Format device info" step
ReleaseDeviceInfo(fw) ==
  IF fw.applied_to # "" THEN fw.applied_to
  ELSE IF fw.supported_models # <<>>
    THEN JoinComma(SubSeq(fw.supported_models, 1, Min({5, Len(fw.supported_models)})))
           \o (IF Len(fw.supported_models) > 5
                 THEN ", and " \o Decimal(Len(fw.supported_models) - 5) \o " more"
                 ELSE "")
  ELSE fw.model

\* the lines of one firmware in the body
ReleaseEntry(fw) ==
  "### " \o fw.model \o " - v" \o fw.version \o "\n\n"
    \o "- **Supported Devices:** " \o ReleaseDeviceInfo(fw) \o "\n"
    \o (IF fw.date # "" THEN "- **Release Date:** " \o fw.date \o "\n" ELSE "")
    \o "- **Download:** "
    \o (IF fw.filename # ""
          THEN "[" \o DOWNLOAD_MARK \o " Download " \o fw.filename \o "]("
                 \o GITHUB_DOWNLOAD \o fw.filename \o ")"
          ELSE "Link not available")
    \o "\n\n"

RECURSIVE ReleaseEntries(_)
ReleaseEntries(release_firmwares) ==
  IF release_firmwares = <<>> THEN ""
  ELSE ReleaseEntry(Head(release_firmwares)) \o ReleaseEntries(Tail(release_firmwares))

\* the records of the files of the release: for each file the first record
\* that names it
RECURSIVE ReleaseFirmwares(_, _)
ReleaseFirmwares(all_firmwares, firmware_files) ==
  IF firmware_files = <<>> THEN <<>>
  ELSE LET hits == {i \in 1..Len(all_firmwares) :
                      all_firmwares[i].filename = Head(firmware_files)}
       IN  (IF hits = {} THEN <<>> ELSE <<all_firmwares[Min(hits)]>>)
             \o ReleaseFirmwares(all_firmwares, Tail(firmware_files))

\* release.generate_release_body
generate_release_body(firmwares_live_doc, firmwares_manual_doc, firmware_files) ==
  LET release_firmwares ==
        ReleaseFirmwares(MergeDocuments(firmwares_live_doc, firmwares_manual_doc),
                         firmware_files)
  IN  IF release_firmwares = <<>>
        THEN "Automated firmware archive update.\n\nNew firmwares may have been added. "
               \o "Check the README for details."
        ELSE "## Firmware Updates\n\n"
               \o "This release includes the following firmware files:\n\n"
               \o ReleaseEntries(release_firmwares)
               \o "---\n\n"
               \o WARNING_MARK \o " **Important:** By downloading and using these firmware "
               \o "files, you agree to be bound by the [Hikvision Materials License "
               \o "Agreement](" \o LICENSE_URL \o ").\n\n"
               \o "Please read the agreement before downloading or using any firmware files."

\* the end of the run of whitespace that starts at i (i - 1 when there is none)
RECURSIVE SpaceRunEnd(_, _)
SpaceRunEnd(s, i) == IF At(s, i) \in Whitespace THEN SpaceRunEnd(s, i + 1) ELSE i - 1

\* the word, in any case, stands at position i
WordAt(s, i, word) ==
  i + Len(word) - 1 <= Len(s) /\ Lower(SubSeq(s, i, i + Len(word) - 1)) = word

\* the positions where ###\s+ matches
SectionMarks(body) ==
  {i \in 1..Len(body) : SubSeq(body, i, Min({i + 2, Len(body)})) = "###"
                          /\ At(body, i + 3) \in Whitespace}

\* re.split(r'###\s+', body)[1:]
ReleaseSections(body) ==
  LET marks == SectionMarks(body)
  IN  {LET later == {j \in marks : j > i}
       IN  [mark |-> i,
            text |-> SubSeq(body, SpaceRunEnd(body, i + 3) + 1,
                            IF later = {} THEN Len(body) ELSE Min(later) - 1)] : i \in marks}

\* re.match(r'([^-]+)\s+-\s+v(\d+\.\d+\.\d+(?:\.\d+)?)', section, re.IGNORECASE):
\* the groups, or no match
HeaderMatch(section) ==
  LET hyphens == Positions(section, "-")
      p == IF hyphens = {} THEN 0 ELSE Min(hyphens)
      v == SpaceRunEnd(section, p + 1) + 1
  IN  IF /\ p >= 3
         /\ At(section, p - 1) \in Whitespace
         /\ v > p + 1
         /\ At(section, v) \in {"v", "V"}
         /\ VersionEnd(section, v + 1) > 0
        THEN [matched |-> TRUE,
              model |-> SubSeq(section, 1, p - 2),
              version |-> SubSeq(section, v + 1, VersionEnd(section, v + 1))]
        ELSE [matched |-> FALSE, model |-> "", version |-> ""]

\* \d{4}-\d{2}-\d{2} at position i
DateAt(s, i) ==
  /\ i + 9 <= Len(s)
  /\ \A k \in {0, 1, 2, 3, 5, 6, 8, 9} : Ch(s, i + k) \in Digits
  /\ Ch(s, i + 4) = "-"
  /\ Ch(s, i + 7) = "-"

\* re.search(r'Release Date:\s*(\d{4}-\d{2}-\d{2})', section, re.IGNORECASE)
SectionDate(section) ==
  LET hits == {i \in 1..Len(section) :
                 /\ WordAt(section, i, "release date:")
                 /\ DateAt(section, SpaceRunEnd(section, i + 13) + 1)}
      d == SpaceRunEnd(section, Min(hits) + 13) + 1
  IN  IF hits = {} THEN "" ELSE SubSeq(section, d, d + 9)

\* re.search(r'\[<mark>\s*Download\s+([^\]]+)\]', section, re.IGNORECASE): the
\* positions of the group, for a match that starts at i
DownloadNameAt(section, i) ==
  LET w == SpaceRunEnd(section, i + 2) + 1
      g == SpaceRunEnd(section, w + 8) + 1
      first == IF At(section, g) = "]" /\ g > w + 9 THEN g - 1 ELSE g
      closing == {j \in Positions(section, "]") : j > first}
  IN  IF /\ At(section, i) = "["
         /\ At(section, i + 1) = DOWNLOAD_MARK
         /\ WordAt(section, w, "download")
         /\ g > w + 8
         /\ closing # {}
        THEN [matched |-> TRUE, name |-> Strip(SubSeq(section, first, Min(closing) - 1))]
        ELSE [matched |-> FALSE, name |-> ""]

SectionFilename(section) ==
  LET hits == {i \in 1..Len(section) : DownloadNameAt(section, i).matched}
  IN  IF hits = {} THEN [matched |-> FALSE, name |-> ""]
      ELSE DownloadNameAt(section, Min(hits))

\* the sections that yield an entry of filename_to_info
InfoSections(body) ==
  {s \in ReleaseSections(body) :
     /\ HeaderMatch(s.text).matched
     /\ Upper(Strip(HeaderMatch(s.text).model)) # "UNKNOWN"
     /\ SectionFilename(s.text).matched}

\* filename_to_info of sync_github_releases for one release body: a later
\* section overrides an earlier one that names the same file
filename_to_info(body) ==
  LET sections == InfoSections(body)
      names == {SectionFilename(s.text).name : s \in sections}
  IN  [f \in names |->
         LET last == CHOOSE s \in sections :
                       /\ SectionFilename(s.text).name = f
                       /\ \A t \in sections :
                            SectionFilename(t.text).name = f => t.mark <= s.mark
         IN  [model |-> Upper(Strip(HeaderMatch(last.text).model)),
              version |-> Strip(HeaderMatch(last.text).version),
              date |-> SectionDate(last.text)]]

FileNames == {FILE_FULL, FILE_ANON}

\* the firmware directory: absent, or holding any of the files
Directories ==
  {[exists |-> FALSE, names |-> {}]} \cup {[exists |-> TRUE, names |-> n] : n \in SUBSET FileNames}

\* a release listing: whether the request succeeds, the asset names, and
\* the mapping filename_to_info read from the release notes
NoInfo == [f \in {} |-> [model |-> "", version |-> "", date |-> ""]]

NotesInfo == [f \in {FILE_FULL} |-> [model |-> "NVR", version |-> VERSION_A, date |-> "2022-08-22"]]

Listings ==
  {[ok |-> FALSE, assets |-> {FILE_FULL}, info |-> NoInfo],
   [ok |-> TRUE, assets |-> {}, info |-> NoInfo],
   [ok |-> TRUE, assets |-> {FILE_FULL}, info |-> NoInfo],
   [ok |-> TRUE, assets |-> {FILE_FULL, "notes.txt"}, info |-> NotesInfo]}

\* a link of the vendor's site
LINK_A ==
  [model |-> MODEL_A, hardware_version |-> "IPC_G0", version |-> VERSION_A,
   download_url |-> VENDOR_URL, link_text |-> FILE_FULL,
   suggested_filename |-> FILE_FULL, applied_to |-> "Applied to: DS-2CD2047G2"]

Sites == {<<>>, <<LINK_A>>}

\* a record as a persisted catalog can hold it, from its varying fields
StoredRecord(model, source, filename, download_url, applied_to, notes) ==
  LET hw == IF source \in {"directory_sync", "github_releases_sync"} THEN "UNKNOWN"
            ELSE "IPC_G0"
  IN  FirmwareRecord(FirstDeviceId, model, hw, VERSION_A,
                     IF filename = "" THEN "" ELSE "2022-08-22",
                     download_url, filename, <<model>>, applied_to, "", notes, source)

Sources == {"live", "manual", "directory_sync", "github_releases_sync"}

\* every combination of the fields the passes read
AllRecords ==
  {StoredRecord(m, src, f, u, a, "") :
     m \in {MODEL_A, "UNKNOWN"}, src \in Sources, f \in {""} \cup FileNames,
     u \in {"", VENDOR_URL, LICENSE_URL, GITHUB_DOWNLOAD \o FILE_FULL},
     a \in {"", "Applied to: DS-2CD2047G2"}}

\* the records the runs of the programs start from
SeedRecords ==
  {StoredRecord(MODEL_A, "live", FILE_FULL, VENDOR_URL, "Applied to: DS-2CD2047G2", "stable"),
   StoredRecord(MODEL_A, "live", "", VENDOR_URL, "", ""),
   StoredRecord(MODEL_A, "live", FILE_ANON, LICENSE_URL, "", ""),
   StoredRecord(MODEL_A, "directory_sync", FILE_ANON, "", "", "Synced from firmware directory"),
   StoredRecord(MODEL_A, "github_releases_sync", FILE_ANON, GITHUB_DOWNLOAD \o FILE_ANON, "",
                "Synced from GitHub releases"),
   StoredRecord("UNKNOWN", "directory_sync", FILE_ANON, "", "", "Synced from firmware directory"),
   StoredRecord("UNKNOWN", "live", "", VENDOR_URL, "", "")}

\* the persisted state a sequence of records stands for: every record gets
\* the device of its (model, hardware_version) pair, allocated in order
RECURSIVE Persisted(_, _, _)
Persisted(records, i, st) ==
  IF i > Len(records) THEN st
  ELSE
    LET rec == records[i]
    IN  Persisted(records, i + 1,
          [fw |-> Append(st.fw,
                    [rec EXCEPT !.device_id =
                       ResolveId(st.dev, rec.model, rec.hardware_version)]),
           dev |-> ResolveDevices(st.dev, rec.model, rec.hardware_version)])

\* the sequences of at most n elements of S
RECURSIVE SeqsUpTo(_, _)
SeqsUpTo(S, n) ==
  IF n = 0 THEN {<<>>}
  ELSE SeqsUpTo(S, n - 1) \cup
       {Append(q, x) : q \in {r \in SeqsUpTo(S, n - 1) : Len(r) = n - 1},
                       x \in S}

\* the persisted states of at most n records with distinct keys
PersistedStates(records, n) ==
  {Persisted(cat, 1, [fw |-> <<>>, dev |-> <<>>]) :
     cat \in {c \in SeqsUpTo(records, n) :
                \A i, j \in 1..Len(c) : i # j => c[i].key # c[j].key}}

\* a device no record refers to, as an earlier cleanup of records leaves it
ORPHAN_DEVICE == [id |-> 100007, model |-> "UNKNOWN", hardware_version |-> "UNKNOWN"]

(***************************************************************************)
(* The state.                                                              *)
(***************************************************************************)
VARIABLES
  devices,          \* self.devices
  firmwares_live,   \* self.firmwares_live
  disk,             \* devices.json and firmwares_live.json
  files,            \* whether each document is there and can be parsed
  issued,           \* the largest id devices.json has held
  dir,              \* the firmwares directory
  releases,         \* what the release host answers
  site,             \* the links the vendor's site offers
  firmwares,        \* the candidates still to be processed by scrape()
  prog,             \* the program that is running
  pc,               \* where it is
  log,              \* the passes run since the last completed persist
  origin,           \* the persisted state and directory the behaviour began with
  phase,            \* first run, interrupted, re-run
  save_repeat,      \* the running save() began from the output of the last one
  last_out,         \* the output of the last completed save()
  prev_out,         \* the output of the one before
  op,               \* the last unit operation and the state it was applied to
  errors,           \* self.errors
  scraped_count,    \* self.scraped_count
  processed,        \* the counter of the ingest loop of scrape()
  found,            \* the number of candidates the crawl returned
  status,           \* self.status, as save_status() leaves it
  unsaved,          \* the candidates processed since the last completed save()
  playwright,       \* the browser automation: ok, missing, or failing to start
  pages,            \* the site by search term, model title and link, each link with the outcome of its download
  crawling          \* the local variables of scrape_with_playwright while it runs

vars == <<devices, firmwares_live, disk, files, issued, dir, releases, site, firmwares, prog, pc,
          log, origin, phase, save_repeat, last_out, prev_out, op,
          errors, scraped_count, processed, found, status, unsaved, playwright, pages, crawling>>

\* a program position: the routine and the index of its next call
Pos(routine, i) == [routine |-> routine, i |-> i]

Off == Pos("off", 0)

NoOutput == [has |-> FALSE, fw |-> <<>>, dev |-> <<>>, dir |-> [exists |-> FALSE, names |-> {}]]

Output(cat, devs, d) == [has |-> TRUE, fw |-> cat, dev |-> devs, dir |-> d]

NoOp == [name |-> "none", arg |-> <<>>, fw |-> <<>>, dev |-> <<>>, dir |-> <<>>,
         ret |-> NoDevice, returned |-> {}, prev_name |-> "none", prev_arg |-> <<>>]

\* both documents hold JSON
Readable == [dev |-> "valid", fw |-> "valid"]

\* common.load_json: {} for a document that is missing, the parsed content
\* of one that holds JSON; json.load raises on any other content
load_json(state, content) ==
  [raised |-> state = "malformed",
   value  |-> IF state = "valid" THEN content ELSE <<>>]

\* self.status before save_status() has run
UnknownStatus == [status |-> "unknown", errors |-> <<>>]

\* scrape_with_playwright not running
NoCrawl == [running |-> FALSE]

\* the counters and the error list of a scraper object just constructed
Fresh ==
  /\ errors = <<>>
  /\ scraped_count = 0
  /\ processed = 0
  /\ found = 0
  /\ status = UnknownStatus
  /\ unsaved = 0

\* two catalogs, or two device tables, hold the same entries (dict equality)
SameEntries(a, b) == Range(a) = Range(b)

Init ==
  /\ disk \in PersistedStates(SeedRecords, MaxInitRecords)
            \cup {[fw |-> <<>>, dev |-> <<ORPHAN_DEVICE>>]}
  /\ dir \in Directories
  /\ releases \in Listings
  /\ site \in Sites
  /\ devices = <<>>
  /\ firmwares_live = <<>>
  /\ firmwares = <<>>
  /\ prog = "none"
  /\ pc = Off
  /\ log = <<>>
  /\ files = Readable
  /\ issued = LargestId(disk.dev)
  /\ origin = [disk |-> disk, dir |-> dir]
  /\ phase = "fresh"
  /\ save_repeat = FALSE
  /\ last_out = NoOutput
  /\ prev_out = NoOutput
  /\ op = NoOp
  /\ Fresh
  /\ pages = <<>>
  /\ crawling = NoCrawl
  /\ playwright = "ok"

\* the calls of save(), in order
SavePasses ==
  <<"sync_github_releases", "sync_firmwares_directory", "cleanup_unknown_entries",
    "cleanup_failed_downloads", "cleanup_empty_devices", "write_devices",
    "write_firmwares">>

\* the calls of fix_and_sync.main before it calls save()
FixPasses == <<"sync_firmwares_directory", "cleanup_failed_downloads", "cleanup_empty_devices">>

\* save() is running: the one that ends the program ("save"), or the
\* periodic one of the ingest loop of scrape() ("checkpoint")
InSave == pc.routine \in {"save", "checkpoint"}

\* the calls of cleanup_blank_devices.py
BlankPasses == <<"cleanup_blank_devices", "write_devices", "write_firmwares">>

\* the call the program is about to make ("" outside fix_and_sync.main,
\* save() and cleanup_blank_devices())
Call ==
  IF pc.routine = "fix" THEN FixPasses[pc.i]
  ELSE IF InSave THEN SavePasses[pc.i]
  ELSE IF pc.routine = "blank" THEN BlankPasses[pc.i]
  ELSE ""

\* the position after that call returns
AfterCall ==
  IF pc.routine = "fix"
    THEN (IF pc.i < Len(FixPasses) THEN Pos("fix", pc.i + 1) ELSE Pos("save", 1))
  ELSE IF pc.routine = "blank"
    THEN (IF pc.i < Len(BlankPasses) THEN Pos("blank", pc.i + 1) ELSE Pos("exit", 0))
  ELSE IF pc.i < Len(SavePasses) THEN Pos(pc.routine, pc.i + 1)
  ELSE IF pc.routine = "checkpoint" THEN Pos("ingest", 0)
  ELSE IF prog = "scrape" THEN Pos("status", 0)
  ELSE Pos("exit", 0)

\* the log with one more pass; the first pass after a completed persist
\* starts it anew
Logged(name) ==
  IF log # <<>> /\ log[Len(log)] = "write_firmwares" THEN <<name>> ELSE Append(log, name)

\* a save() that starts from the output of the last completed one, with the
\* same files on disk
RepeatsLastSave ==
  /\ last_out.has
  /\ SameEntries(firmwares_live, last_out.fw)
  /\ SameEntries(devices, last_out.dev)
  /\ dir = last_out.dir

\* what every step of a pass does besides its own effect
PassStep(name) ==
  /\ Call = name
  /\ pc' = AfterCall
  /\ log' = Logged(name)
  /\ save_repeat' = IF InSave /\ pc.i = 1 THEN RepeatsLastSave ELSE save_repeat
  /\ UNCHANGED <<releases, site, firmwares, prog, origin, phase, op,
                 errors, scraped_count, processed, found, status, playwright, pages, crawling>>

(***************************************************************************)
(* The programs.                                                           *)
(***************************************************************************)
\* the programs of the repository that write the persisted documents
Programs == {"scrape", "fix_and_sync", "cleanup_blank_devices", "add"}

\* main(), command 'add': the fw_data it builds from its arguments
AddCommand(url, model, hw_version, version) ==
  [model |-> model,
   hardware_version |-> IF hw_version = "" THEN "UNKNOWN" ELSE hw_version,
   version |-> version, download_url |-> url, local_file_path |-> "", filename |-> "",
   supported_models |-> <<model>>, applied_to |-> "", date |-> "", changes |-> "",
   notes |-> "", source |-> "manual"]

\* the add commands given: with and without --hw-version, and without a URL
AddCommands ==
  {AddCommand(VENDOR_URL, MODEL_A, "", VERSION_A),
   AddCommand(VENDOR_URL, MODEL_A, "IPC_G0", VERSION_A),
   AddCommand("", MODEL_A, "IPC_G0", VERSION_A)}

\* a load_json of the constructor raises: the exception leaves the program
LoadRaises ==
  load_json(files.dev, disk.dev).raised \/ load_json(files.fw, disk.fw).raised

\* HikvisionScraper.__init__, cleanup_blank_devices 9-11: load the persisted
\* documents
Start(program) ==
  /\ pc = Off
  /\ prog' = program
  /\ devices' = load_json(files.dev, disk.dev).value
  /\ firmwares_live' = load_json(files.fw, disk.fw).value
  /\ firmwares' \in IF program = "add" /\ ~LoadRaises
                      THEN {<<fw_data>> : fw_data \in AddCommands}
                      ELSE {<<>>}
  /\ pc' = IF LoadRaises THEN Pos("fatal", 0)
           ELSE IF program = "scrape" THEN Pos("crawl", 0)
           ELSE IF program = "fix_and_sync" THEN Pos("fix", 1)
           ELSE IF program = "add" THEN Pos("add", 0)
           ELSE Pos("blank", 1)
  /\ phase' = IF phase = "fresh" /\ program = "scrape" THEN "first"
              ELSE IF phase = "interrupted" /\ program = "scrape" THEN "rerun"
              ELSE "other"
  /\ UNCHANGED <<disk, files, issued, dir, releases, site, log, origin, save_repeat, last_out, prev_out, op,
                 unsaved, errors, scraped_count, processed, found, status, playwright, pages, crawling>>

\* an entry of self.errors: the text of the message and the number in it
Error(text, idx) == [text |-> text, idx |-> idx]

\* idx of "for idx, fw in enumerate(firmwares, 1)" for the next candidate
Idx == found - Len(firmwares) + 1

\* a handler that gives up the rest of the batch
AbortBatch(fws) == <<>>

\* the candidates left after the handler of a failed candidate: "continue"
AfterRaise(fws) == Tail(fws)

\* the step of the progress message, "idx % 100 == 0"
IsLoggingStep(n) == n % 100 = 0

\* "if processed % 50 == 0": a periodic save() is due
IsCheckpoint(n) == n % CheckpointEvery = 0

\* self.errors[-10:]
LastTen(errs) == IF Len(errs) <= 10 THEN errs ELSE SubSeq(errs, Len(errs) - 9, Len(errs))

\* HikvisionScraper.save_status: the status and the errors it writes
save_status(errs, count) ==
  [status |-> IF errs # <<>> THEN "error"
              ELSE IF count > 0 THEN "success"
              ELSE "no_new_firmwares",
   errors |-> LastTen(errs)]

\* scrape(): firmwares = self.scrape_with_playwright()
Crawl ==
  /\ pc = Pos("crawl", 0)
  /\ firmwares' = IF playwright = "ok"
                    THEN scrape_with_playwright(firmwares_live, site).firmwares
                    ELSE <<>>
  /\ dir' = IF playwright = "ok"
              THEN SaveDownloads(dir, scrape_with_playwright(firmwares_live, site).saved)
              ELSE dir
  /\ errors' = IF playwright = "fails" THEN Append(errors, Error("Playwright error", 0))
               ELSE errors
  /\ found' = Len(firmwares')
  /\ pc' = Pos("ingest", 0)
  /\ UNCHANGED <<devices, firmwares_live, disk, files, issued, releases, site, prog, log, origin, phase,
                 save_repeat, last_out, prev_out, op,
                 unsaved, scraped_count, processed, status, playwright, pages, crawling>>

\* scrape(): self.process_firmware(fw) for the next candidate
ProcessFirmware ==
  /\ pc = Pos("ingest", 0)
  /\ firmwares # <<>>
  /\ firmwares_live' = process_firmware(firmwares_live, devices, Head(firmwares)).fw
  /\ devices' = process_firmware(firmwares_live, devices, Head(firmwares)).dev
  /\ scraped_count' = IF Len(firmwares_live') > Len(firmwares_live)
                        THEN scraped_count + 1 ELSE scraped_count
  /\ firmwares' = Tail(firmwares)
  /\ processed' = processed + 1
  /\ unsaved' = unsaved + 1
  /\ pc' = IF IsCheckpoint(processed') THEN Pos("checkpoint", 1) ELSE pc
  /\ UNCHANGED <<disk, files, issued, dir, releases, site, prog, log, origin, phase, save_repeat,
                 last_out, prev_out, op, errors, found, status, playwright, pages, crawling>>

\* scrape(): the call for the next candidate raises, before process_firmware
\* has touched anything or after it has created the device; the handler
\* records the error and goes on with the next candidate
ProcessRaises ==
  /\ pc = Pos("ingest", 0)
  /\ firmwares # <<>>
  /\ Len(errors) < MaxRaises
  /\ devices' \in {devices, process_firmware(firmwares_live, devices, Head(firmwares)).dev}
  /\ errors' = Append(errors, Error("Failed to process firmware", Idx))
  /\ firmwares' = AfterRaise(firmwares)
  /\ UNCHANGED <<firmwares_live, disk, files, issued, dir, releases, site, prog, pc, log, origin,
                 phase, save_repeat, last_out, prev_out, op, unsaved, scraped_count,
                 processed, found, status, playwright, pages, crawling>>

\* scrape(), finally: self.save_status()
SaveStatus ==
  /\ pc = Pos("status", 0)
  /\ status' = save_status(errors, scraped_count)
  /\ pc' = Pos("exit", 0)
  /\ UNCHANGED <<devices, firmwares_live, disk, files, issued, dir, releases, site, firmwares,
                 prog, log, origin, phase, save_repeat, last_out, prev_out, op, unsaved,
                 errors, scraped_count, processed, found, playwright, pages, crawling>>

\* main(), command 'add': without a URL it returns; otherwise
\* scraper.process_firmware(fw_data), and scraper.save() is called
AddFirmware ==
  /\ pc = Pos("add", 0)
  /\ IF Head(firmwares).download_url = ""
       THEN /\ pc' = Pos("exit", 0)
            /\ UNCHANGED <<devices, firmwares_live>>
       ELSE /\ pc' = Pos("save", 1)
            /\ firmwares_live' = process_firmware(firmwares_live, devices, Head(firmwares)).fw
            /\ devices' = process_firmware(firmwares_live, devices, Head(firmwares)).dev
  /\ firmwares' = <<>>
  /\ UNCHANGED <<disk, files, issued, dir, releases, site, prog, log, origin, phase,
                 save_repeat, last_out, prev_out, op,
                 unsaved, errors, scraped_count, processed, found, status, playwright, pages, crawling>>

\* scrape(): the candidates are processed, self.save() is called
CallSave ==
  /\ pc = Pos("ingest", 0)
  /\ firmwares = <<>>
  /\ pc' = Pos("save", 1)
  /\ UNCHANGED <<devices, firmwares_live, disk, files, issued, dir, releases, site, firmwares, prog, log,
                 origin, phase, save_repeat, last_out, prev_out, op,
                 unsaved, errors, scraped_count, processed, found, status, playwright, pages, crawling>>

SyncGithubReleases ==
  /\ PassStep("sync_github_releases")
  /\ \E ord \in Orders(ReleaseFilenames(releases)) :
       LET st == sync_github_releases([fw |-> firmwares_live, dev |-> devices],
                                      releases, dir, ord)
       IN  firmwares_live' = st.fw /\ devices' = st.dev
  /\ UNCHANGED <<disk, files, issued, dir, last_out, prev_out,
                 unsaved>>

SyncFirmwaresDirectory ==
  /\ PassStep("sync_firmwares_directory")
  /\ \E ord \in DirectoryOrders(dir) :
       LET st == sync_firmwares_directory([fw |-> firmwares_live, dev |-> devices],
                                          dir, ord)
       IN  firmwares_live' = st.fw /\ devices' = st.dev
  /\ UNCHANGED <<disk, files, issued, dir, last_out, prev_out,
                 unsaved>>

CleanupUnknownEntries ==
  /\ PassStep("cleanup_unknown_entries")
  /\ firmwares_live' = cleanup_unknown_entries(firmwares_live, dir)
  /\ UNCHANGED <<devices, disk, files, issued, dir, last_out, prev_out,
                 unsaved>>

CleanupFailedDownloads ==
  /\ PassStep("cleanup_failed_downloads")
  /\ \E ord \in Orders(FirmwareFiles(dir)) :
       firmwares_live' = cleanup_failed_downloads(firmwares_live, dir, ord)
  /\ UNCHANGED <<devices, disk, files, issued, dir, last_out, prev_out,
                 unsaved>>

CleanupEmptyDevices ==
  /\ PassStep("cleanup_empty_devices")
  /\ devices' = cleanup_empty_devices(firmwares_live, devices, dir)
  /\ UNCHANGED <<firmwares_live, disk, files, issued, dir, last_out, prev_out,
                 unsaved>>

\* cleanup_blank_devices.py: the devices without files and their records go
CleanupBlankDevices ==
  /\ PassStep("cleanup_blank_devices")
  /\ firmwares_live' = cleanup_blank_devices(firmwares_live, devices, dir).fw
  /\ devices' = cleanup_blank_devices(firmwares_live, devices, dir).dev
  /\ UNCHANGED <<disk, files, issued, dir, last_out, prev_out,
                 unsaved>>

\* save_json('devices.json', self.devices)
WriteDevices ==
  /\ PassStep("write_devices")
  /\ disk' = [disk EXCEPT !.dev = devices]
  /\ files' = [files EXCEPT !.dev = "valid"]
  /\ issued' = Max({issued, LargestId(devices)})
  /\ UNCHANGED <<devices, firmwares_live, dir, last_out, prev_out,
                 unsaved>>

\* save_json('firmwares_live.json', self.firmwares_live): save() is complete
WriteFirmwares ==
  /\ PassStep("write_firmwares")
  /\ disk' = [disk EXCEPT !.fw = firmwares_live]
  /\ files' = [files EXCEPT !.fw = "valid"]
  /\ UNCHANGED issued
  /\ last_out' = IF InSave THEN Output(firmwares_live, devices, dir) ELSE last_out
  /\ prev_out' = IF InSave THEN last_out ELSE prev_out
  /\ unsaved' = 0
  /\ UNCHANGED <<devices, firmwares_live, dir>>

\* the program ends
Exit ==
  /\ pc = Pos("exit", 0)
  /\ pc' = Off
  /\ prog' = "none"
  /\ devices' = <<>>
  /\ firmwares_live' = <<>>
  /\ firmwares' = <<>>
  /\ phase' = IF phase = "rerun" THEN "rerun" ELSE "other"
  /\ errors' = <<>>
  /\ scraped_count' = 0
  /\ processed' = 0
  /\ found' = 0
  /\ status' = UnknownStatus
  /\ unsaved' = 0
  /\ UNCHANGED <<disk, files, issued, dir, releases, site, log, origin, save_repeat, last_out,
                 prev_out, op, playwright, pages, crawling>>

\* the process is killed: what is in memory is lost
Crash ==
  /\ pc # Off
  /\ pc' = Off
  /\ prog' = "none"
  /\ devices' = <<>>
  /\ firmwares_live' = <<>>
  /\ firmwares' = <<>>
  /\ log' = <<>>
  /\ phase' = IF phase = "first" THEN "interrupted" ELSE "other"
  /\ errors' = <<>>
  /\ scraped_count' = 0
  /\ processed' = 0
  /\ found' = 0
  /\ status' = UnknownStatus
  /\ unsaved' = 0
  /\ UNCHANGED <<disk, files, issued, dir, releases, site, origin, save_repeat, last_out,
                 prev_out, op, playwright, pages, crawling>>

Next ==
  \/ \E program \in {"scrape", "fix_and_sync"} : Start(program)
  \/ Crawl
  \/ ProcessFirmware
  \/ CallSave
  \/ SyncGithubReleases
  \/ SyncFirmwaresDirectory
  \/ CleanupUnknownEntries
  \/ CleanupFailedDownloads
  \/ CleanupEmptyDevices
  \/ WriteDevices
  \/ WriteFirmwares
  \/ SaveStatus
  \/ Exit
  \/ Crash

Spec == Init /\ [][Next]_vars

(***************************************************************************)
(* The maintenance programs: fix_and_sync.py, cleanup_blank_devices.py and *)
(* the add command of main.py, on the same persisted state.                *)
(***************************************************************************)
InitTools == Init /\ site = <<>>

NextTools ==
  \/ \E program \in Programs \ {"scrape"} : Start(program)
  \/ AddFirmware
  \/ SyncGithubReleases
  \/ SyncFirmwaresDirectory
  \/ CleanupUnknownEntries
  \/ CleanupFailedDownloads
  \/ CleanupEmptyDevices
  \/ CleanupBlankDevices
  \/ WriteDevices
  \/ WriteFirmwares
  \/ Exit
  \/ Crash

SpecTools == InitTools /\ [][NextTools]_vars

(***************************************************************************)
(* One run of scrape() with its faults: a browser automation that is       *)
(* missing or does not start, a release listing that cannot be fetched,    *)
(* candidates whose processing raises, and crawls long enough for the      *)
(* periodic save().                                                        *)
(***************************************************************************)
\* the k-th firmware of a long listing of the vendor's site, and its record
BatchVersion(k) == "5.8." \o Decimal(k)

BatchLink(k) ==
  [LINK_A EXCEPT !.version = BatchVersion(k),
                 !.link_text = MODEL_A \o "_V" \o BatchVersion(k) \o "_220822.zip",
                 !.suggested_filename = MODEL_A \o "_V" \o BatchVersion(k) \o "_220822.zip"]

BatchRecord(k) ==
  FirmwareRecord(FirstDeviceId, MODEL_A, "IPC_G0", BatchVersion(k), "2022-08-22", VENDOR_URL, BatchLink(k).suggested_filename, <<MODEL_A>>, "", "", "", "live")

\* a catalog that holds the first n firmwares of the listing
BatchDisk(n) ==
  [fw  |-> [k \in 1..n |-> BatchRecord(k)],
   dev |-> <<[id |-> FirstDeviceId, model |-> MODEL_A, hardware_version |-> "IPC_G0"]>>]

\* the listing: n firmwares the catalog holds, and one it does not hold in
\* front of them or behind them
BatchSites(n) ==
  {<<LINK_A>> \o [k \in 1..n |-> BatchLink(k)],
   [k \in 1..n |-> BatchLink(k)] \o <<LINK_A>>}

InitRun ==
  /\ \/ /\ disk \in PersistedStates(SeedRecords, MaxInitRecords)
        /\ dir \in Directories
        /\ site \in Sites
        /\ releases \in Listings
        /\ playwright \in {"ok", "missing", "fails"}
     \/ /\ disk = BatchDisk(MaxCandidates - 1)
        /\ site \in BatchSites(MaxCandidates - 1)
        /\ dir = [exists |-> FALSE, names |-> {}]
        /\ releases = [ok |-> FALSE, assets |-> {FILE_FULL}, info |-> NoInfo]
        /\ playwright = "ok"
  /\ files = Readable
  /\ issued = LargestId(disk.dev)
  /\ devices = <<>>
  /\ firmwares_live = <<>>
  /\ firmwares = <<>>
  /\ prog = "none"
  /\ pc = Off
  /\ log = <<>>
  /\ origin = [disk |-> disk, dir |-> dir]
  /\ phase = "fresh"
  /\ save_repeat = FALSE
  /\ last_out = NoOutput
  /\ prev_out = NoOutput
  /\ op = NoOp
  /\ Fresh
  /\ pages = <<>>
  /\ crawling = NoCrawl

NextRun ==
  \/ Start("scrape")
  \/ Crawl
  \/ ProcessFirmware
  \/ ProcessRaises
  \/ CallSave
  \/ SyncGithubReleases
  \/ SyncFirmwaresDirectory
  \/ CleanupUnknownEntries
  \/ CleanupFailedDownloads
  \/ CleanupEmptyDevices
  \/ WriteDevices
  \/ WriteFirmwares
  \/ SaveStatus

SpecRun == InitRun /\ [][NextRun]_vars

(***************************************************************************)
(* scrape_with_playwright followed link by link: the loops over the search *)
(* terms, the model titles of a search and the links of a model, with the  *)
(* download limit and downloads that fail.                                 *)
(***************************************************************************)
\* the ways a download ends: the file is saved; page.expect_download or
\* download.save_as raises; no file is at the path afterwards
Downloads == {"saved", "raises", "nofile"}

\* a counter that takes every attempt for a download
CountAttempt(file_exists, count) == count + 1

\* "if filepath.exists(): ... new_downloads_count += 1"
CountDownload(file_exists, count) == IF file_exists THEN count + 1 ELSE count

\* a handler of a failed download that gives up the crawl
StopOnDownloadError(c) == [c EXCEPT !.test_mode_limit_reached = TRUE]

\* "except Exception as download_err: ... continue": nothing is appended
OnDownloadError(c) == c

\* the candidate of a link whose download left no file
UnsavedCandidate(link) ==
  [DownloadedCandidate(link) EXCEPT !.local_file_path = "", !.filename = ""]

\* the local variables at the start of scrape_with_playwright; visited,
\* saved_files and last_download record what has happened to the links
StartOfCrawl ==
  [running |-> TRUE, search_idx |-> 0, title |-> 0, link_idx |-> 0,
   firmwares |-> <<>>, new_downloads_count |-> 0, downloaded_in_this_run |-> {},
   test_mode_limit_reached |-> FALSE,
   visited |-> 0, saved_files |-> 0, last_download |-> "none"]

\* the body of "for link_idx, link in enumerate(links, 1)" for one link past
\* the limit check at its head
ProcessLink(c, cat, o) ==
  LET link == o.link
      key == LinkKey(link)
      seen == [c EXCEPT !.link_idx = @ + 1, !.visited = @ + 1]
  IN  IF link.version # "" /\ (key \in Keys(cat) \/ key \in c.downloaded_in_this_run)
        THEN [seen EXCEPT !.firmwares = Append(@, ExistingCandidate(link)),
                          !.last_download = "skipped"]
      ELSE IF LimitReached(c.new_downloads_count)
        THEN [c EXCEPT !.test_mode_limit_reached = TRUE]
      ELSE IF o.download = "raises"
        THEN OnDownloadError([seen EXCEPT !.last_download = "raises"])
      ELSE
        LET file_exists == o.download = "saved"
            counted == [seen EXCEPT
                          !.new_downloads_count = CountDownload(file_exists, @),
                          !.downloaded_in_this_run =
                             IF file_exists /\ link.version # "" THEN @ \cup {key} ELSE @,
                          !.saved_files = IF file_exists THEN @ + 1 ELSE @,
                          !.last_download = o.download]
        IN  IF link.version = "" THEN counted
            ELSE [counted EXCEPT !.firmwares =
                    Append(@, IF file_exists THEN DownloadedCandidate(link)
                              ELSE UnsavedCandidate(link))]

\* scrape(): scrape_with_playwright is entered
BeginCrawl ==
  /\ pc = Pos("crawl", 0)
  /\ playwright = "ok"
  /\ crawling' = StartOfCrawl
  /\ pc' = Pos("search", 0)
  /\ UNCHANGED <<devices, firmwares_live, disk, files, issued, dir, releases, site, firmwares,
                 prog, log, origin, phase, save_repeat, last_out, prev_out, op, errors,
                 scraped_count, processed, found, status, unsaved, playwright, pages>>

\* "for search_idx, search_term in enumerate(search_terms, 1)": the next
\* search, "continue" when it finds no model, the end of the loop
NextSearch ==
  /\ pc = Pos("search", 0)
  /\ IF crawling.search_idx >= Len(pages)
       THEN /\ pc' = Pos("return", 0)
            /\ UNCHANGED crawling
       ELSE /\ crawling' = [crawling EXCEPT !.search_idx = @ + 1, !.title = 0,
                                            !.test_mode_limit_reached = FALSE]
            /\ pc' = IF Len(pages[crawling.search_idx + 1]) = 0 THEN pc ELSE Pos("title", 0)
  /\ UNCHANGED <<devices, firmwares_live, disk, files, issued, dir, releases, site, firmwares,
                 prog, log, origin, phase, save_repeat, last_out, prev_out, op, errors,
                 scraped_count, processed, found, status, unsaved, playwright, pages>>

\* the loops over the batches and the titles of a search: "if
\* test_mode_limit_reached: break" in both and after them, the next title,
\* the end of the titles
NextTitle ==
  /\ pc = Pos("title", 0)
  /\ IF crawling.test_mode_limit_reached
       THEN /\ pc' = Pos("return", 0)
            /\ UNCHANGED crawling
       ELSE IF crawling.title >= Len(pages[crawling.search_idx])
         THEN /\ pc' = Pos("search", 0)
              /\ UNCHANGED crawling
       ELSE /\ crawling' = [crawling EXCEPT !.title = @ + 1, !.link_idx = 0]
            /\ pc' = Pos("link", 0)
  /\ UNCHANGED <<devices, firmwares_live, disk, files, issued, dir, releases, site, firmwares,
                 prog, log, origin, phase, save_repeat, last_out, prev_out, op, errors,
                 scraped_count, processed, found, status, unsaved, playwright, pages>>

\* one turn of the loop over the links of a model: its end, the two tests
\* at its head, or the body for the next link
VisitLink ==
  /\ pc = Pos("link", 0)
  /\ LET links == pages[crawling.search_idx][crawling.title]
         after == ProcessLink(crawling, firmwares_live, links[crawling.link_idx + 1])
     IN  IF crawling.link_idx >= Len(links)
           THEN /\ pc' = Pos("title", 0)
                /\ UNCHANGED <<crawling, dir>>
         ELSE IF crawling.test_mode_limit_reached
           THEN /\ pc' = Pos("title", 0)
                /\ UNCHANGED <<crawling, dir>>
         ELSE IF LimitReached(crawling.new_downloads_count)
           THEN /\ crawling' = [crawling EXCEPT !.test_mode_limit_reached = TRUE]
                /\ pc' = Pos("title", 0)
                /\ UNCHANGED dir
         ELSE /\ crawling' = after
              /\ dir' = IF after.saved_files > crawling.saved_files
                          THEN SaveDownloads(dir, {links[crawling.link_idx + 1].link.suggested_filename})
                          ELSE dir
              /\ pc' = IF after.test_mode_limit_reached THEN Pos("title", 0) ELSE pc
  /\ UNCHANGED <<devices, firmwares_live, disk, files, issued, releases, site, firmwares,
                 prog, log, origin, phase, save_repeat, last_out, prev_out, op, errors,
                 scraped_count, processed, found, status, unsaved, playwright, pages>>

\* the "Deduplicate" loop and "return unique_firmwares"
ReturnFirmwares ==
  /\ pc = Pos("return", 0)
  /\ firmwares' = Deduplicate(crawling.firmwares, 1, <<>>)
  /\ found' = Len(firmwares')
  /\ pc' = Pos("ingest", 0)
  /\ UNCHANGED <<devices, firmwares_live, disk, files, issued, dir, releases, site,
                 prog, log, origin, phase, save_repeat, last_out, prev_out, op, errors,
                 scraped_count, processed, status, unsaved, playwright, pages, crawling>>

\* the downloads that fail: up to MaxFailures links, all in the same way
FailureMaps ==
  UNION {[F -> {kind}] : F \in {S \in SUBSET (1..MaxLinks) : Cardinality(S) <= MaxFailures},
                         kind \in Downloads \ {"saved"}}

\* the k-th link of the site and how its download ends
Offered(k, fm) ==
  [link |-> BatchLink(k), download |-> IF k \in DOMAIN fm THEN fm[k] ELSE "saved"]

\* the links a+1 .. b of the site under one model title
TitleLinks(a, b, fm) == [j \in 1..(b - a) |-> Offered(a + j, fm)]

\* the site: a search with two models, a search that finds none, a search
\* with one model
CrawlPages ==
  {<< <<TitleLinks(0, a, fm), TitleLinks(a, b, fm)>>, <<>>, <<TitleLinks(b, MaxLinks, fm)>> >> :
     a \in {4, MAX_FIRMWARES_TO_DOWNLOAD}, b \in {MAX_FIRMWARES_TO_DOWNLOAD + 1, MaxLinks},
     fm \in FailureMaps}

\* the links of the site in the order of the three loops
RECURSIVE Flatten(_)
Flatten(seqs) == IF seqs = <<>> THEN <<>> ELSE Head(seqs) \o Flatten(Tail(seqs))

InitCrawl ==
  /\ disk \in {[fw |-> <<>>, dev |-> <<>>], BatchDisk(2)}
  /\ pages \in CrawlPages
  /\ site = [i \in 1..MaxLinks |-> Flatten(Flatten(pages))[i].link]
  /\ dir = [exists |-> FALSE, names |-> {}]
  /\ releases = [ok |-> TRUE, assets |-> {}, info |-> NoInfo]
  /\ playwright = "ok"
  /\ crawling = NoCrawl
  /\ files = Readable
  /\ issued = LargestId(disk.dev)
  /\ devices = <<>>
  /\ firmwares_live = <<>>
  /\ firmwares = <<>>
  /\ prog = "none"
  /\ pc = Off
  /\ log = <<>>
  /\ origin = [disk |-> disk, dir |-> dir]
  /\ phase = "fresh"
  /\ save_repeat = FALSE
  /\ last_out = NoOutput
  /\ prev_out = NoOutput
  /\ op = NoOp
  /\ errors = <<>>
  /\ scraped_count = 0
  /\ processed = 0
  /\ found = 0
  /\ status = UnknownStatus
  /\ unsaved = 0

NextCrawl ==
  \/ Start("scrape")
  \/ BeginCrawl
  \/ NextSearch
  \/ NextTitle
  \/ VisitLink
  \/ ReturnFirmwares

SpecCrawl == InitCrawl /\ [][NextCrawl]_vars

(***************************************************************************)
(* The start of a program on documents that are missing, hold JSON, or     *)
(* hold something else.                                                    *)
(***************************************************************************)
FileStates == {"missing", "valid", "malformed"}

InitLoad ==
  /\ \E st \in PersistedStates(SeedRecords, MaxInitRecords) :
       \E f \in [dev : FileStates, fw : FileStates] :
         /\ files = f
         /\ disk = [fw  |-> IF f.fw = "missing" THEN <<>> ELSE st.fw,
                    dev |-> IF f.dev = "missing" THEN <<>> ELSE st.dev]
  /\ issued = LargestId(disk.dev)
  /\ dir \in Directories
  /\ releases = [ok |-> TRUE, assets |-> {}, info |-> NoInfo]
  /\ site = <<>>
  /\ devices = <<>>
  /\ firmwares_live = <<>>
  /\ firmwares = <<>>
  /\ prog = "none"
  /\ pc = Off
  /\ log = <<>>
  /\ origin = [disk |-> disk, dir |-> dir]
  /\ phase = "fresh"
  /\ save_repeat = FALSE
  /\ last_out = NoOutput
  /\ prev_out = NoOutput
  /\ op = NoOp
  /\ Fresh
  /\ pages = <<>>
  /\ crawling = NoCrawl
  /\ playwright = "ok"

NextLoad == \E program \in Programs : Start(program)

SpecLoad == InitLoad /\ [][NextLoad]_vars

(***************************************************************************)
(* A whole run of scrape as a function of what it starts from: the states  *)
(* it can end in, one for every order its loops over sets can take.        *)
(***************************************************************************)
\* the five passes of save()
SaveResults(st, rel, d) ==
  {LET synced == sync_firmwares_directory(sync_github_releases(st, rel, d, o1), d, o2)
       cat == cleanup_failed_downloads(cleanup_unknown_entries(synced.fw, d), d, o3)
   IN  [fw |-> cat, dev |-> cleanup_empty_devices(cat, synced.dev, d)] :
     o1 \in Orders(ReleaseFilenames(rel)), o2 \in DirectoryOrders(d),
     o3 \in Orders(FirmwareFiles(d))}

\* "for idx, fw in enumerate(firmwares, 1): self.process_firmware(fw)"
RECURSIVE ProcessAll(_, _, _)
ProcessAll(st, candidates, i) ==
  IF i > Len(candidates) THEN st
  ELSE ProcessAll(process_firmware(st.fw, st.dev, candidates[i]), candidates, i + 1)

\* scrape(): crawl, ingest, save
ScrapeResults(disk0, dir0, rel, links) ==
  LET crawl == scrape_with_playwright(disk0.fw, links)
  IN  SaveResults(ProcessAll(disk0, crawl.firmwares, 1), rel, SaveDownloads(dir0, crawl.saved))

(***************************************************************************)
(* The cleanup passes as functions: one pass applied to a catalog of any   *)
(* records, in any directory.                                              *)
(***************************************************************************)
\* the values of the variables the single operations do not use
Idle ==
  /\ site = <<>>
  /\ disk = [fw |-> <<>>, dev |-> <<>>]
  /\ firmwares = <<>>
  /\ prog = "none"
  /\ pc = Off
  /\ log = <<>>
  /\ files = Readable
  /\ issued = LargestId(disk.dev)
  /\ origin = [disk |-> disk, dir |-> dir]
  /\ phase = "fresh"
  /\ save_repeat = FALSE
  /\ last_out = NoOutput
  /\ prev_out = NoOutput
  /\ op = NoOp
  /\ Fresh
  /\ pages = <<>>
  /\ crawling = NoCrawl
  /\ playwright = "ok"

\* the catalogs a pass is applied to: those of at most MaxUnitRecords records
\* of any kind, and those of one record of any kind next to a seed record
UnitCatalogs ==
  PersistedStates(AllRecords, MaxUnitRecords) \cup
    {Persisted(cat, 1, [fw |-> <<>>, dev |-> <<>>]) :
       cat \in {c \in (AllRecords \X SeedRecords) \cup (SeedRecords \X AllRecords) :
                  c[1].key # c[2].key}}

InitUnit ==
  /\ \E st \in UnitCatalogs : firmwares_live = st.fw /\ devices = st.dev
  /\ dir \in Directories
  /\ releases = [ok |-> TRUE, assets |-> {}, info |-> NoInfo]
  /\ Idle

\* the record of an operation: its name, its argument, the state it found,
\* and the operation before it
Applied(name, arg) ==
  /\ op' = [NoOp EXCEPT !.name = name, !.arg = arg, !.fw = firmwares_live,
                        !.dev = devices, !.prev_name = op.name, !.prev_arg = op.arg]
  /\ UNCHANGED <<disk, files, issued, dir, releases, site, firmwares, prog, pc, log, origin, phase,
                 save_repeat, last_out, prev_out,
                 unsaved, errors, scraped_count, processed, found, status, playwright, pages, crawling>>

UnitCleanupUnknownEntries ==
  /\ op = NoOp
  /\ firmwares_live' = cleanup_unknown_entries(firmwares_live, dir)
  /\ UNCHANGED devices
  /\ Applied("cleanup_unknown_entries", <<>>)

UnitCleanupFailedDownloads ==
  /\ op = NoOp
  /\ \E ord \in Orders(FirmwareFiles(dir)) :
       /\ firmwares_live' = cleanup_failed_downloads(firmwares_live, dir, ord)
       /\ UNCHANGED devices
       /\ Applied("cleanup_failed_downloads", ord)

NextUnit ==
  \/ UnitCleanupUnknownEntries
  \/ UnitCleanupFailedDownloads

SpecUnit == InitUnit /\ [][NextUnit]_vars

(***************************************************************************)
(* process_firmware alone: any sequence of candidates ingested into a      *)
(* persisted catalog.                                                      *)
(***************************************************************************)
\* the candidates process_firmware is handed
Candidates ==
  {DownloadedCandidate(LINK_A),
   ExistingCandidate(LINK_A),
   [DownloadedCandidate(LINK_A) EXCEPT !.notes = "second writer"],
   [DownloadedCandidate(LINK_A) EXCEPT !.hardware_version = "UNKNOWN"],
   [DownloadedCandidate(LINK_A) EXCEPT !.version = ""],
   [DownloadedCandidate(LINK_A) EXCEPT !.model = ""]}

\* the records of the catalogs: the seeds, and a record added by hand
IngestRecords ==
  SeedRecords \cup
    {StoredRecord(MODEL_A, "manual", "", VENDOR_URL, "", "added by hand"),
     StoredRecord("UNKNOWN", "manual", FILE_ANON, "", "", "added by hand")}

InitIngest ==
  /\ \E st \in PersistedStates(IngestRecords, MaxInitRecords) :
       firmwares_live = st.fw /\ devices = st.dev
  /\ dir \in {d \in Directories : FILE_FULL \in d.names}
  /\ releases = [ok |-> TRUE, assets |-> {}, info |-> NoInfo]
  /\ Idle

UnitProcessFirmware ==
  \E fw_data \in Candidates :
    /\ firmwares_live' = process_firmware(firmwares_live, devices, fw_data).fw
    /\ devices' = process_firmware(firmwares_live, devices, fw_data).dev
    /\ Applied("process_firmware", fw_data)

NextIngest == UnitProcessFirmware

SpecIngest == InitIngest /\ [][NextIngest]_vars

(***************************************************************************)
(* The directory ingest on its own: sync_firmwares_directory applied to a  *)
(* catalog and a directory, and applied again.                             *)
(***************************************************************************)
\* a file of a version no seed record has, named in lower case
FILE_NEXT == "ds-2cd2047g2_v5.7.1_230105.zip"

SyncDirectories ==
  {[exists |-> TRUE, names |-> names] : names \in SUBSET {FILE_FULL, FILE_ANON, FILE_NEXT}}

InitDirectory ==
  /\ \E st \in PersistedStates(SeedRecords, MaxInitRecords) :
       firmwares_live = st.fw /\ devices = st.dev
  /\ dir \in SyncDirectories
  /\ releases = [ok |-> TRUE, assets |-> {}, info |-> NoInfo]
  /\ Idle

UnitSyncFirmwaresDirectory ==
  /\ op.prev_name = "none"
  /\ \E ord \in DirectoryOrders(dir) :
       LET st == sync_firmwares_directory([fw |-> firmwares_live, dev |-> devices],
                                          dir, ord)
       IN  /\ firmwares_live' = st.fw
           /\ devices' = st.dev
           /\ Applied("sync_firmwares_directory", ord)

NextDirectory == UnitSyncFirmwaresDirectory

SpecDirectory == InitDirectory /\ [][NextDirectory]_vars

(***************************************************************************)
(* The three ingest paths, each applied to candidates some of which lack   *)
(* a model or a version.                                                   *)
(***************************************************************************)
FILE_NOVERSION == "DS-2CD2047G2_latest.zip"

PathDirectories ==
  {[exists |-> TRUE, names |-> names] : names \in SUBSET {FILE_FULL, FILE_ANON, FILE_NOVERSION}}

PathListings ==
  {[ok |-> TRUE, assets |-> assets, info |-> info] :
     assets \in SUBSET {FILE_FULL, FILE_ANON, FILE_NOVERSION}, info \in {NoInfo, NotesInfo}}

InitPaths ==
  /\ \E st \in PersistedStates(SeedRecords, MaxInitRecords) :
       firmwares_live = st.fw /\ devices = st.dev
  /\ dir \in PathDirectories
  /\ releases \in PathListings
  /\ Idle

UnitSyncGithubReleases ==
  /\ op = NoOp
  /\ \E ord \in Orders(ReleaseFilenames(releases)) :
       LET st == sync_github_releases([fw |-> firmwares_live, dev |-> devices],
                                      releases, dir, ord)
       IN  /\ firmwares_live' = st.fw
           /\ devices' = st.dev
           /\ Applied("sync_github_releases", ord)

PathProcessFirmware == op = NoOp /\ UnitProcessFirmware

PathSyncFirmwaresDirectory == op = NoOp /\ UnitSyncFirmwaresDirectory

NextPaths ==
  \/ PathProcessFirmware
  \/ PathSyncFirmwaresDirectory
  \/ UnitSyncGithubReleases

SpecPaths == InitPaths /\ [][NextPaths]_vars

(***************************************************************************)
(* The pure text functions, applied to one input at a time: op.arg is the  *)
(* input and op.ret the value returned.                                    *)
(***************************************************************************)
VersionMarkers == {"", "V", "v"}

VersionCores == {"5.7.0", "5.7", "12.0.3", "5.7.0.1"}

BuildSuffixes ==
  {"", "_220123", "_20220123", " build 220123", "_build_220123", " Build 220123", "_22", "x"}

VersionStrings ==
  {m \o c \o x : m \in VersionMarkers, c \in VersionCores, x \in BuildSuffixes}
    \cup {"garbage", ""}

DateRuns ==
  {"22082", "220822", "2208221", "20220822", "202208221", "191231", "20191231", "230105",
   "20230105"}

DatePrefixes == {"DS-2CD2047G2_V5.7.0_", "Firmware_V5.7.0_", "ds-2cd_v5.7.1_", ""}

NameWithRun(prefix, run) == prefix \o run \o ".zip"

DateNames == {NameWithRun(p, r) : p \in DatePrefixes, r \in DateRuns} \cup {"Firmware.zip"}

DateUrls == {"", "/content/dam/202211/fw.zip", "/content/dam/20221105/fw.zip"}

Returned(name, arg, ret) == [NoOp EXCEPT !.name = name, !.arg = arg, !.ret = ret]

AllButOp ==
  <<devices, firmwares_live, disk, files, issued, dir, releases, site, firmwares,
    prog, pc, log, origin, phase, save_repeat, last_out, prev_out,
    unsaved, errors, scraped_count, processed, found, status, playwright, pages, crawling>>

ParseVersion(version_str) ==
  /\ op' = Returned("parse_version", version_str, parse_version(version_str))
  /\ UNCHANGED AllButOp

ExtractDate(filename) ==
  /\ op' = Returned("extract_date", filename, DateFromFilename(filename))
  /\ UNCHANGED AllButOp

ExtractLinkDate(link_text, url) ==
  /\ op' = Returned("link_date", [link_text |-> link_text, url |-> url],
                    LinkDate(link_text, url))
  /\ UNCHANGED AllButOp

InitText ==
  /\ devices = <<>>
  /\ firmwares_live = <<>>
  /\ dir = [exists |-> FALSE, names |-> {}]
  /\ releases = [ok |-> FALSE, assets |-> {}, info |-> NoInfo]
  /\ Idle

NextText ==
  \/ \E version_str \in VersionStrings : ParseVersion(version_str)
  \/ \E filename \in DateNames : ExtractDate(filename)
  \/ \E link_text \in DateNames, url \in DateUrls : ExtractLinkDate(link_text, url)

SpecText == InitText /\ [][NextText]_vars

(***************************************************************************)
(* release.py on the documents of a finished run and a hand-written        *)
(* firmwares_manual.json: op.fw is the live document read, op.arg the      *)
(* manual document read, op.ret the listing.                               *)
(***************************************************************************)
MaxReadmeRecords == 3

ListedRecord(device_id, model, version, date, source) ==
  FirmwareRecord(device_id, model, "IPC_G0", version, date, VENDOR_URL, "", <<model>>,
                 "", "", "", source)

\* records of the live document; the third holds the date the run
\* 20220822 of a file name is turned into
LiveRecords ==
  {ListedRecord(FirstDeviceId, MODEL_A, "5.7.0", "2022-08-22", "live"),
   ListedRecord(FirstDeviceId, MODEL_A, "5.6.0", "2019-03-01", "live"),
   ListedRecord(FirstDeviceId, MODEL_A, "5.5.0",
                DateFromFilename("Firmware_V5.5.0_20220822.zip"), "live"),
   ListedRecord(FirstDeviceId, MODEL_A, "5.8.0", "", "live"),
   ListedRecord(FirstDeviceId + 1, "DS-7608NI-K2", "4.1.0", "2021-05-06", "live")}

\* hand-written records: one under the key of a live record, one with a
\* version that is no number, one without a device id
ManualRecords ==
  <<ListedRecord(FirstDeviceId, MODEL_A, "5.7.0", "2022-08-23", "manual"),
    ListedRecord(FirstDeviceId, MODEL_A, "beta", "2023-01-05", "manual"),
    ListedRecord(NoDevice, "DS-2DE4225IW", "5.4.0", "2018-01-01", "manual"),
    ListedRecord(FirstDeviceId, MODEL_A, "5.9.0", "2023-02-01", "manual")>>

ManualDocuments ==
  {<<>>} \cup {<<ManualRecords[i]>> : i \in 1..4}
    \cup {<<ManualRecords[i], ManualRecords[j]>> : i \in 1..4, j \in 2..4}

LiveDocuments ==
  {c \in SeqsUpTo(LiveRecords, MaxReadmeRecords) :
     \A i, j \in 1..Len(c) : i # j => c[i].key # c[j].key}

InitReadme ==
  /\ devices = <<>>
  /\ firmwares_live = <<>>
  /\ dir = [exists |-> FALSE, names |-> {}]
  /\ releases = [ok |-> FALSE, assets |-> {}, info |-> NoInfo]
  /\ site = <<>>
  /\ disk \in {[fw |-> doc, dev |-> <<>>] : doc \in LiveDocuments}
  /\ firmwares = <<>>
  /\ prog = "none"
  /\ pc = Off
  /\ log = <<>>
  /\ files = Readable
  /\ issued = LargestId(disk.dev)
  /\ origin = [disk |-> disk, dir |-> dir]
  /\ phase = "fresh"
  /\ save_repeat = FALSE
  /\ last_out = NoOutput
  /\ prev_out = NoOutput
  /\ op = NoOp
  /\ Fresh
  /\ pages = <<>>
  /\ crawling = NoCrawl
  /\ playwright = "ok"

GenerateReadme(firmwares_manual_doc) ==
  /\ op' = [NoOp EXCEPT !.name = "generate_readme", !.arg = firmwares_manual_doc,
                        !.fw = disk.fw,
                        !.ret = generate_readme(disk.fw, firmwares_manual_doc)]
  /\ UNCHANGED AllButOp

NextReadme == \E firmwares_manual_doc \in ManualDocuments : GenerateReadme(firmwares_manual_doc)

SpecReadme == InitReadme /\ [][NextReadme]_vars

(***************************************************************************)
(* A release published from the documents on disk with the body of         *)
(* generate_release_body, and read by the sync_github_releases of a        *)
(* scraper whose catalog does not hold the files of the release.           *)
(***************************************************************************)
MaxReleaseFiles == 2

ReleaseRecords ==
  {FirmwareRecord(FirstDeviceId, model, "IPC_G0", version, date, VENDOR_URL, filename,
                  <<model>>, "", "", "", "live") :
     model \in {MODEL_A, "NVR"}, version \in {VERSION_A, "4.75.013"},
     date \in {"2022-08-22", ""}, filename \in {FILE_FULL, FILE_ANON}}

ReleaseDocuments ==
  {c \in SeqsUpTo(ReleaseRecords, MaxReleaseFiles) :
     \A i, j \in 1..Len(c) : i # j => c[i].key # c[j].key /\ c[i].filename # c[j].filename}

InitNotes ==
  /\ devices = <<>>
  /\ firmwares_live = <<>>
  /\ dir = [exists |-> FALSE, names |-> {}]
  /\ releases = [ok |-> TRUE, assets |-> {}, info |-> NoInfo]
  /\ site = <<>>
  /\ disk \in {[fw |-> doc, dev |-> <<>>] : doc \in ReleaseDocuments}
  /\ firmwares = <<>>
  /\ prog = "none"
  /\ pc = Off
  /\ log = <<>>
  /\ files = Readable
  /\ issued = LargestId(disk.dev)
  /\ origin = [disk |-> disk, dir |-> dir]
  /\ phase = "fresh"
  /\ save_repeat = FALSE
  /\ last_out = NoOutput
  /\ prev_out = NoOutput
  /\ op = NoOp
  /\ Fresh
  /\ pages = <<>>
  /\ crawling = NoCrawl
  /\ playwright = "ok"

\* the release of the files: its assets, and what a reader finds in its body
PublishRelease(firmware_files) ==
  /\ op = NoOp
  /\ releases' = [ok |-> TRUE,
                  assets |-> Range(firmware_files),
                  info |-> filename_to_info(
                             generate_release_body(disk.fw, <<>>, firmware_files))]
  /\ op' = [NoOp EXCEPT !.name = "generate_release_body", !.arg = firmware_files,
                        !.fw = disk.fw,
                        !.ret = generate_release_body(disk.fw, <<>>, firmware_files)]
  /\ UNCHANGED <<devices, firmwares_live, disk, files, issued, dir, site, firmwares,
                 prog, pc, log, origin, phase, save_repeat, last_out, prev_out,
                 unsaved, errors, scraped_count, processed, found, status, playwright, pages, crawling>>

SyncPublishedRelease ==
  /\ op.name = "generate_release_body"
  /\ \E ord \in Orders(ReleaseFilenames(releases)) :
       LET st == sync_github_releases([fw |-> firmwares_live, dev |-> devices],
                                      releases, dir, ord)
       IN  /\ firmwares_live' = st.fw
           /\ devices' = st.dev
           /\ Applied("sync_github_releases", ord)

NextNotes ==
  \/ \E firmware_files \in SeqsUpTo({FILE_FULL, FILE_ANON}, MaxReleaseFiles) \ {<<>>} :
       PublishRelease(firmware_files)
  \/ SyncPublishedRelease

SpecNotes == InitNotes /\ [][NextNotes]_vars

\* ---- the device table and the two firmware documents ----

\* the records of a source other than manual, and those of the source manual
LivePart(cat) == SelectSeq(cat, LAMBDA rec : rec.source # "manual")

ManualPart(cat) == SelectSeq(cat, LAMBDA rec : rec.source = "manual")

\* devices.json, firmwares_live.json and firmwares_manual.json, every record
\* with the id of its device, as the program has loaded them
InitManual ==
  /\ \E st \in PersistedStates(IngestRecords, MaxInitRecords) :
       /\ firmwares_live = LivePart(st.fw)
       /\ devices = st.dev
       /\ disk = [fw |-> LivePart(st.fw), dev |-> st.dev, manual |-> ManualPart(st.fw)]
  /\ dir \in Directories
  /\ releases = [ok |-> TRUE, assets |-> {}, info |-> NoInfo]
  /\ site = <<>>
  /\ firmwares = <<>>
  /\ prog = "none"
  /\ pc = Off
  /\ log = <<>>
  /\ files = Readable
  /\ issued = LargestId(disk.dev)
  /\ origin = [disk |-> disk, dir |-> dir]
  /\ phase = "fresh"
  /\ save_repeat = FALSE
  /\ last_out = NoOutput
  /\ prev_out = NoOutput
  /\ op = NoOp
  /\ Fresh
  /\ pages = <<>>
  /\ crawling = NoCrawl
  /\ playwright = "ok"

\* cleanup_empty_devices reads self.firmwares_live and self.devices
ManualCleanupEmptyDevices ==
  /\ op = NoOp
  /\ devices' = cleanup_empty_devices(firmwares_live, devices, dir)
  /\ UNCHANGED firmwares_live
  /\ Applied("cleanup_empty_devices", <<>>)

\* cleanup_blank_devices reads the three documents, groups the records of
\* {**firmwares_live, **firmwares_manual} by device, removes the keys of the
\* devices it removes from both firmware documents, and writes the three
ManualCleanupBlankDevices ==
  /\ op = NoOp
  /\ LET all_firmwares == MergeDocuments(disk.fw, disk.manual)
         st == cleanup_blank_devices(all_firmwares, disk.dev, dir)
         firmwares_to_remove == Keys(all_firmwares) \ Keys(st.fw)
     IN  /\ devices' = st.dev
         /\ firmwares_live' = RemoveKeys(disk.fw, firmwares_to_remove)
         /\ disk' = [fw |-> RemoveKeys(disk.fw, firmwares_to_remove),
                     dev |-> st.dev,
                     manual |-> RemoveKeys(disk.manual, firmwares_to_remove)]
  /\ op' = [NoOp EXCEPT !.name = "cleanup_blank_devices", !.fw = firmwares_live,
                        !.dev = devices]
  /\ UNCHANGED <<files, issued, dir, releases, site, firmwares, prog, pc, log, origin,
                 phase, save_repeat, last_out, prev_out, unsaved, errors, scraped_count,
                 processed, found, status, playwright, pages, crawling>>

NextManual ==
  \/ ManualCleanupEmptyDevices
  \/ ManualCleanupBlankDevices

SpecManual == InitManual /\ [][NextManual]_vars

\* ---- a site that offers a firmware under more than one link ----

\* the longest list of links under the model title
MaxRepeatLinks == 3

\* two firmwares of the model, and a link in whose text and href
\* extract_version finds no version
RepeatLinks ==
  {BatchLink(1), BatchLink(2),
   [BatchLink(1) EXCEPT !.version = "", !.link_text = FILE_NOVERSION,
                        !.suggested_filename = FILE_NOVERSION]}

\* one search with one model title, each link with the way its download ends
RepeatPages ==
  {<< <<links>> >> :
     links \in SeqsUpTo([link : RepeatLinks, download : Downloads], MaxRepeatLinks) \ {<<>>}}

InitRepeat ==
  /\ disk \in {[fw |-> <<>>, dev |-> <<>>], BatchDisk(1)}
  /\ pages \in RepeatPages
  /\ site = [i \in 1..Len(pages[1][1]) |-> pages[1][1][i].link]
  /\ dir = [exists |-> FALSE, names |-> {}]
  /\ releases = [ok |-> TRUE, assets |-> {}, info |-> NoInfo]
  /\ playwright = "ok"
  /\ crawling = NoCrawl
  /\ files = Readable
  /\ issued = LargestId(disk.dev)
  /\ devices = <<>>
  /\ firmwares_live = <<>>
  /\ firmwares = <<>>
  /\ prog = "none"
  /\ pc = Off
  /\ log = <<>>
  /\ origin = [disk |-> disk, dir |-> dir]
  /\ phase = "fresh"
  /\ save_repeat = FALSE
  /\ last_out = NoOutput
  /\ prev_out = NoOutput
  /\ op = NoOp
  /\ Fresh

SpecRepeat == InitRepeat /\ [][NextCrawl]_vars

(***************************************************************************)
(* The identity resolver alone: any sequence of resolve-or-create steps.   *)
(***************************************************************************)
\* a device with an id below the first id the code allocates
LEGACY_DEVICE == [id |-> 7, model |-> "DS-7608NI", hardware_version |-> "UNKNOWN"]

DeviceTables ==
  {<<>>, <<ORPHAN_DEVICE>>, <<LEGACY_DEVICE>>, <<LEGACY_DEVICE, ORPHAN_DEVICE>>}
    \cup {st.dev : st \in PersistedStates(SeedRecords, MaxInitRecords)}

Pairs ==
  [model : {MODEL_A, "DS-7608NI", "UNKNOWN"}, hardware_version : {"IPC_G0", "UNKNOWN"}]

InitResolve ==
  /\ devices \in DeviceTables
  /\ firmwares_live = <<>>
  /\ dir = [exists |-> FALSE, names |-> {}]
  /\ releases = [ok |-> FALSE, assets |-> {}, info |-> NoInfo]
  /\ site = <<>>
  /\ disk = [fw |-> <<>>, dev |-> devices]
  /\ firmwares = <<>>
  /\ prog = "none"
  /\ pc = Off
  /\ log = <<>>
  /\ files = Readable
  /\ issued = LargestId(disk.dev)
  /\ origin = [disk |-> disk, dir |-> dir]
  /\ phase = "fresh"
  /\ save_repeat = FALSE
  /\ last_out = NoOutput
  /\ prev_out = NoOutput
  /\ op = NoOp
  /\ Fresh
  /\ pages = <<>>
  /\ crawling = NoCrawl
  /\ playwright = "ok"

\* one resolve-or-create step; op.ret is the id it yields, op.returned the
\* ids yielded so far with their pairs
Resolve(pair) ==
  /\ devices' = ResolveDevices(devices, pair.model, pair.hardware_version)
  /\ op' = [NoOp EXCEPT
              !.name = "resolve", !.arg = pair, !.dev = devices,
              !.ret = ResolveId(devices, pair.model, pair.hardware_version),
              !.returned = op.returned \cup
                 {[pair |-> pair,
                   id |-> ResolveId(devices, pair.model, pair.hardware_version)]},
              !.prev_name = op.name, !.prev_arg = op.arg]
  /\ UNCHANGED <<firmwares_live, disk, files, issued, dir, releases, site, firmwares, prog, pc, log,
                 origin, phase, save_repeat, last_out, prev_out,
                 unsaved, errors, scraped_count, processed, found, status, playwright, pages, crawling>>

NextResolve == \E pair \in Pairs : Resolve(pair)

SpecResolve == InitResolve /\ [][NextResolve]_vars

(***************************************************************************)
(* The contract of the catalog.                                            *)
(***************************************************************************)
CandidateKey(fw_data) ==
  FirmwareKey(fw_data.model, fw_data.hardware_version, fw_data.version)

RecordsOfKey(cat, key) == {i \in 1..Len(cat) : cat[i].key = key}

\* C1: process_firmware, given a candidate whose identity key is in the
\* catalog, leaves the catalog as it found it (the same keys, every field of
\* every record, notes included), and the catalog holds one record of that
\* key; so it is when the same candidate is ingested a second time.
C1_FirstWriterWins ==
  (op.name = "process_firmware" /\ CandidateKey(op.arg) \in Keys(op.fw)) =>
     /\ firmwares_live = op.fw
     /\ Cardinality(RecordsOfKey(firmwares_live, CandidateKey(op.arg))) = 1

\* the same candidate ingested twice in a row, the second time with notes
\* other than the ones recorded
C1_Witness ==
  /\ op.name = "process_firmware"
  /\ op.prev_name = "process_firmware"
  /\ op.arg.local_file_path # ""
  /\ CandidateKey(op.arg) = CandidateKey(op.prev_arg)
  /\ CandidateKey(op.arg) \in Keys(op.fw)
  /\ op.fw[KeyIndex(op.fw, CandidateKey(op.arg))].notes # op.arg.notes
  /\ Len(op.fw) >= 2

\* the key sync_github_releases derives for a release asset
GithubDerivedKey(rel, filename) ==
  IF filename \in DOMAIN rel.info
    THEN FirmwareKey(rel.info[filename].model, "UNKNOWN", rel.info[filename].version)
    ELSE FirmwareKey(extract_model(filename), "UNKNOWN", VersionFromFilename(filename))

\* C2: sync_github_releases does not modify a record it finds: for an asset
\* whose filename is the filename of no record and whose derived key
\* model_UNKNOWN_version is in the catalog, the record of that key has the
\* same fields after the pass.
C2_GithubUpsert ==
  [][(Call = "sync_github_releases" /\ pc' = AfterCall) =>
       \A f \in ReleaseFilenames(releases) : \A i \in 1..Len(firmwares_live) :
         (/\ \A j \in 1..Len(firmwares_live) : firmwares_live[j].filename # f
          /\ firmwares_live[i].key = GithubDerivedKey(releases, f))
         => \A k \in 1..Len(firmwares_live') :
              firmwares_live'[k].key = firmwares_live[i].key
                => firmwares_live'[k] = firmwares_live[i]]_vars

\* C3: a save() that starts from the device table and catalog the last
\* save() left, with the same files in the directory and the same release
\* listing, leaves the device table and the catalog as that save() left them.
C3_SaveIdempotent ==
  (log # <<>> /\ log[Len(log)] = "write_firmwares" /\ save_repeat) =>
     /\ SameEntries(last_out.fw, prev_out.fw)
     /\ SameEntries(last_out.dev, prev_out.dev)

\* C4: a scrape run interrupted at any point and then run again to its end
\* leaves the device table and the catalog that the run would have left had
\* it not been interrupted.
C4_RetryConverges ==
  (phase = "rerun" /\ pc = Pos("exit", 0)) =>
     \E r \in ScrapeResults(origin.disk, origin.dir, releases, site) :
        SameEntries(firmwares_live, r.fw) /\ SameEntries(devices, r.dev)

CleanupPasses ==
  {"cleanup_unknown_entries", "cleanup_failed_downloads", "cleanup_empty_devices"}

\* C5: on the way to a persist, a cleanup pass runs only after both ingest
\* passes (sync_github_releases, sync_firmwares_directory) have run.
C5_IngestBeforeCleanup ==
  \A i \in 1..Len(log) :
    log[i] \in CleanupPasses =>
      /\ \E j \in 1..(i - 1) : log[j] = "sync_github_releases"
      /\ \E j \in 1..(i - 1) : log[j] = "sync_firmwares_directory"

\* a licensing/agreement page in the place of a download
IsPlaceholderUrl(url) == Contains("materials-license-agreement", url)

\* the evidence of a record: its file in the directory, or a real download URL
HasEvidence(rec, d) ==
  \/ rec.filename # "" /\ d.exists /\ rec.filename \in d.names
  \/ rec.download_url # "" /\ ~IsPlaceholderUrl(rec.download_url)

\* C6: no pass removes a record that has evidence when the pass starts.
C6_EvidenceProtects ==
  [][(Call # "" /\ pc' = AfterCall) =>
       \A i \in 1..Len(firmwares_live) :
         HasEvidence(firmwares_live[i], dir) => firmwares_live[i].key \in Keys(firmwares_live')]_vars

\* C7: when save() has completed, every record whose source is not manual
\* has evidence.
C7_EvidenceInvariant ==
  (pc = Pos("exit", 0) /\ prog # "cleanup_blank_devices") =>
     \A i \in 1..Len(firmwares_live) :
        firmwares_live[i].source # "manual" => HasEvidence(firmwares_live[i], dir)

\* C8: cleanup_failed_downloads removes no record whose model is not
\* "UNKNOWN", whatever its filename, its download_url and the directory.
C8_KnownModelsKept ==
  op.name = "cleanup_failed_downloads" =>
     \A i \in 1..Len(op.fw) :
        op.fw[i].model # "UNKNOWN" => op.fw[i].key \in Keys(firmwares_live)

\* C9: cleanup_unknown_entries removes a record exactly when its model is
\* "UNKNOWN", its source is directory_sync, its filename is empty or names no
\* file of the directory, and its download_url and applied_to are empty;
\* every other record stays as it is, and nothing is added.
C9_UnknownCleanupExact ==
  op.name = "cleanup_unknown_entries" =>
     /\ \A i \in 1..Len(op.fw) :
          LET rec == op.fw[i]
          IN  /\ (rec.key \notin Keys(firmwares_live)) <=>
                   (/\ rec.model = "UNKNOWN"
                    /\ rec.source = "directory_sync"
                    /\ (rec.filename = "" \/ ~dir.exists \/ rec.filename \notin dir.names)
                    /\ rec.download_url = ""
                    /\ rec.applied_to = "")
              /\ rec.key \in Keys(firmwares_live) => rec \in Range(firmwares_live)
     /\ Range(firmwares_live) \subseteq Range(op.fw)

\* the pass removed a record that names a file the directory does not hold,
\* and kept the record next to it
C9_Witness ==
  /\ op.name = "cleanup_unknown_entries"
  /\ Len(op.fw) = 2
  /\ Len(firmwares_live) = 1
  /\ op.fw[1].key \notin Keys(firmwares_live)
  /\ op.fw[1].filename # ""
  /\ dir.exists
  /\ dir.names # {}

\* C10: after any sequence of resolve-or-create steps the device table holds
\* one device, under one id, for every (model, hardware_version) pair, a
\* device for every pair resolved, and the same pair has always yielded the
\* same id.
C10_DeviceUniqueness ==
  /\ \A i, j \in 1..Len(devices) :
       i # j => /\ devices[i].id # devices[j].id
                /\ ~(/\ devices[i].model = devices[j].model
                     /\ devices[i].hardware_version = devices[j].hardware_version)
  /\ \A r \in op.returned :
       \E i \in 1..Len(devices) :
         /\ devices[i].id = r.id
         /\ devices[i].model = r.pair.model
         /\ devices[i].hardware_version = r.pair.hardware_version
  /\ \A a, b \in op.returned : a.pair = b.pair => a.id = b.id

\* a pair resolved again, after the steps that created other devices
C10_Witness ==
  /\ op.name = "resolve"
  /\ get_device_id(op.dev, op.arg.model, op.arg.hardware_version) = op.ret
  /\ op.ret > FirstDeviceId
  /\ Cardinality(op.returned) >= 3
  /\ Len(devices) >= 4

\* the step just taken allocated a device: its pair was not in the table
Allocated ==
  /\ op.name = "resolve"
  /\ \A i \in 1..Len(op.dev) :
       ~(/\ op.dev[i].model = op.arg.model
         /\ op.dev[i].hardware_version = op.arg.hardware_version)

\* C11: an allocation yields the larger of 100000 and the largest id of the
\* table plus one: 100000 on the empty table, 100008 on a table whose largest
\* id is 100007; the id is the id of no device the table already held, and the
\* new entry is appended under it.
C11_Allocation ==
  Allocated =>
    /\ \/ op.ret = 100000 /\ \A id \in DeviceIds(op.dev) : id + 1 <= 100000
       \/ /\ op.ret > 100000
          /\ op.ret - 1 \in DeviceIds(op.dev)
          /\ \A id \in DeviceIds(op.dev) : id < op.ret
    /\ (op.dev = <<>> => op.ret = 100000)
    /\ ((op.dev # <<>> /\ Max(DeviceIds(op.dev)) = 100007) => op.ret = 100008)
    /\ op.ret \notin DeviceIds(op.dev)
    /\ devices = Append(op.dev, [id |-> op.ret, model |-> op.arg.model,
                                 hardware_version |-> op.arg.hardware_version])

\* an allocation on a table whose largest id is 100007
C11_Witness ==
  /\ Allocated
  /\ op.dev # <<>>
  /\ Max(DeviceIds(op.dev)) = 100007
  /\ op.ret = 100008

\* C12: device ids only grow: whenever devices.json is written, over any
\* sequence of ingest and cleanup passes (cleanup_empty_devices,
\* cleanup_blank_devices) and of runs, every entry it did not hold before the
\* write has an id greater than every id it has ever held, so that the id of
\* a deleted device never comes back for another device.
C12_IdsGrow ==
  [][disk'.dev # disk.dev =>
       \A new \in Range(disk'.dev) \ Range(disk.dev) : new.id > issued]_vars

\* C13: when the add command, given a model, a version and a URL, has made
\* its upsert and goes on to save(), the catalog holds a record under
\* model_hardwareVersion_version, and that record, when the catalog had none
\* under the key, has the source manual: no file is asked for.
C13_ManualAdd ==
  [][(/\ pc = Pos("add", 0)
      /\ pc' = Pos("save", 1)
      /\ firmwares[1].model # ""
      /\ firmwares[1].version # "") =>
        \E i \in 1..Len(firmwares_live') :
          /\ firmwares_live'[i].key = CandidateKey(firmwares[1])
          /\ (CandidateKey(firmwares[1]) \notin Keys(firmwares_live)
                => firmwares_live'[i].source = "manual")]_vars

\* the passes logged from entry i on are the calls of save(), in order, as
\* far as the run has come
SaveRunsOn(i) ==
  /\ Len(log) - i + 1 <= Len(SavePasses)
  /\ \A j \in i..Len(log) : log[j] = SavePasses[j - i + 1]

\* C14: when the fetch of the release listing fails, sync_github_releases
\* leaves the catalog and the device table as they are, and that save() goes
\* on: the directory ingest is its next call, and the three cleanups and the
\* two writes follow in order.
C14_FetchFailure ==
  /\ [][(Call = "sync_github_releases" /\ pc' = AfterCall /\ ~releases.ok) =>
          /\ firmwares_live' = firmwares_live
          /\ devices' = devices
          /\ pc' = Pos(pc.routine, 2)
          /\ SavePasses[pc'.i] = "sync_firmwares_directory"]_vars
  /\ [](~releases.ok =>
          \A i \in 1..Len(log) : log[i] = "sync_github_releases" => SaveRunsOn(i))

\* a save() completed after a failed fetch, whose directory ingest added a
\* record
C14_Witness ==
  /\ ~releases.ok
  /\ pc = Pos("exit", 0)
  /\ Len(log) >= Len(SavePasses)
  /\ SaveRunsOn(Len(log) - Len(SavePasses) + 1)
  /\ \E i \in 1..Len(disk.fw) :
       /\ disk.fw[i].source = "directory_sync"
       /\ disk.fw[i].key \notin Keys(origin.disk.fw)

\* no record of the catalog has the file's name or the version in its name
MatchesNoRecord(cat, f) ==
  \A i \in 1..Len(cat) :
    cat[i].filename # f /\ cat[i].version # VersionFromFilename(f)

\* C15: after a directory ingest, every file on disk that matched no record (by
\* name or by version) and whose name yields a model M and a version V is the
\* file of exactly one record, which is new, has the key M_UNKNOWN_V, the
\* hardware version UNKNOWN, the source directory_sync and the date of the
\* name's date digits (DS-2CD2047G2_V5.7.0_220822.zip gives
\* DS-2CD2047G2_UNKNOWN_5.7.0 of 2022-08-22); a directory ingest that follows
\* another with the same files changes nothing.
C15_DirectoryIngest ==
  op.name = "sync_firmwares_directory" =>
    /\ \A f \in FirmwareFiles(dir) :
         (/\ MatchesNoRecord(op.fw, f)
          /\ extract_model(f) # ""
          /\ VersionFromFilename(f) # "") =>
            LET key == extract_model(f) \o "_UNKNOWN_" \o VersionFromFilename(f)
                hits == {i \in 1..Len(firmwares_live) : firmwares_live[i].filename = f}
            IN  /\ Cardinality(hits) = 1
                /\ key \notin Keys(op.fw)
                /\ Cardinality(RecordsOfKey(firmwares_live, key)) = 1
                /\ \A i \in hits :
                     /\ firmwares_live[i].key = key
                     /\ firmwares_live[i].model = extract_model(f)
                     /\ firmwares_live[i].version = VersionFromFilename(f)
                     /\ firmwares_live[i].hardware_version = "UNKNOWN"
                     /\ firmwares_live[i].source = "directory_sync"
                     /\ (f = FILE_FULL =>
                           /\ key = "DS-2CD2047G2_UNKNOWN_5.7.0"
                           /\ firmwares_live[i].date = "2022-08-22")
                     /\ (f = FILE_NEXT =>
                           /\ key = "DS-2CD2047G2_UNKNOWN_5.7.1"
                           /\ firmwares_live[i].date = "2023-01-05")
    /\ (op.prev_name = "sync_firmwares_directory" =>
          firmwares_live = op.fw /\ devices = op.dev)

\* a second ingest, after a first one that made a record of each of two files
\* next to a record it found
C15_Witness ==
  /\ op.name = "sync_firmwares_directory"
  /\ op.prev_name = "sync_firmwares_directory"
  /\ Len(firmwares_live) = 3
  /\ \E i, j \in 1..Len(firmwares_live) :
       /\ firmwares_live[i].filename = FILE_FULL
       /\ firmwares_live[i].source = "directory_sync"
       /\ firmwares_live[i].date = "2022-08-22"
       /\ firmwares_live[j].filename = FILE_NEXT
       /\ firmwares_live[j].source = "directory_sync"

\* C16: a pass changes a record it keeps in one way only: it sets the
\* filename of a record that has none. It replaces no filename that is set,
\* and it changes no other field.
C16_FilenameSetOnce ==
  [][(Call # "" /\ pc' = AfterCall) =>
       \A i \in 1..Len(firmwares_live) : \A k \in 1..Len(firmwares_live') :
         firmwares_live'[k].key = firmwares_live[i].key =>
           /\ [firmwares_live'[k] EXCEPT !.filename = ""]
                = [firmwares_live[i] EXCEPT !.filename = ""]
           /\ (firmwares_live[i].filename # ""
                 => firmwares_live'[k].filename = firmwares_live[i].filename)]_vars

\* C17: the start of a program never fails on the persisted documents: a
\* document that is missing, and one that is there but cannot be parsed, is
\* loaded as the empty mapping, one that holds JSON as its content, and the
\* program goes on to its first step.
C17_LoadNeverFatal ==
  [][(pc = Off /\ pc' # Off) =>
       /\ pc'.routine # "fatal"
       /\ devices' = (IF files.dev = "valid" THEN disk.dev ELSE <<>>)
       /\ firmwares_live' = (IF files.fw = "valid" THEN disk.fw ELSE <<>>)]_vars

\* the errors of candidates whose processing raised
Failures == {i \in 1..Len(errors) : errors[i].text = "Failed to process firmware"}

\* C18: when the processing of candidate i raises in the ingest loop of
\* scrape(), the error is recorded with i, the catalog keeps every record it
\* held, and the loop goes on with candidate i + 1; when the loop is over,
\* every candidate the crawl returned has been processed or has its error.
C18_CandidatesIndependent ==
  /\ [][(pc = Pos("ingest", 0) /\ errors' # errors) =>
          /\ errors' = Append(errors, Error("Failed to process firmware", Idx))
          /\ firmwares_live' = firmwares_live
          /\ firmwares' = Tail(firmwares)
          /\ pc' = Pos("ingest", 0)]_vars
  /\ []((prog = "scrape" /\ pc.routine \in {"save", "status", "exit"}) =>
          /\ firmwares = <<>>
          /\ processed + Cardinality(Failures) = found)

\* a run that ends with the record of its first candidate, the error of its
\* second, and the candidates after it processed
C18_Witness ==
  /\ pc = Pos("exit", 0)
  /\ found = MaxCandidates
  /\ scraped_count = 1
  /\ Len(errors) = 1
  /\ errors[1] = Error("Failed to process firmware", 2)
  /\ processed = found - 1
  /\ LinkKey(LINK_A) \in Keys(disk.fw)
  /\ status.status = "error"

\* C19: when a collaborator is not available at all (the request for the
\* release listing fails, or the browser automation is missing or does not
\* start), the status that save_status writes is 'error' with a non-empty
\* list of errors; scrape() gets to save_status, no exception leaves it.
C19_UnavailableReported ==
  [][(pc = Pos("status", 0) /\ pc' = Pos("exit", 0)
        /\ (~releases.ok \/ playwright # "ok")) =>
       /\ status'.status = "error"
       /\ status'.errors # <<>>]_vars

\* C20: in the ingest loop of scrape() fewer than 50 candidates have been
\* processed since the last completed save() whenever the loop is about to
\* take a candidate or to end, and never more than 50: the save() after the
\* 50th is running then; the records of the catalog in memory that the
\* catalog on disk lacks are never more than one batch of 50.
C20_Checkpoint ==
  /\ pc = Pos("ingest", 0) => unsaved < 50
  /\ unsaved <= 50
  /\ Cardinality(Keys(firmwares_live) \ Keys(disk.fw)) <= 50
  /\ pc.routine = "checkpoint" => (unsaved = 50 /\ processed % 50 = 0)
  /\ (prog = "scrape" /\ pc.routine \in {"ingest", "checkpoint"}) =>
        (unsaved = processed % 50 \/ (pc.routine = "checkpoint" /\ unsaved = 50))

\* the 51st candidate processed, after the save() that followed the 50th
C20_Witness ==
  /\ pc = Pos("ingest", 0)
  /\ processed = 51
  /\ unsaved = 1
  /\ SameEntries(disk.fw, firmwares_live) \/ scraped_count = 1

\* the links of the site with the outcome of their downloads, in the order
\* of the crawl
OfferedLinks == Flatten(Flatten(pages))

\* the links whose firmware the catalog on disk lacks and whose download
\* saves its file
NewSavedLinks ==
  {i \in 1..Len(OfferedLinks) :
     /\ OfferedLinks[i].download = "saved"
     /\ LinkKey(OfferedLinks[i].link) \notin Keys(disk.fw)}

\* C21: while scrape_with_playwright runs and after it, new_downloads_count
\* is the number of downloads whose file was saved, which is the number of
\* files in the firmwares directory the crawl began without; a download
\* that raises or leaves no file does not count; the counter is never above
\* MAX_FIRMWARES_TO_DOWNLOAD.
C21_DownloadCounter ==
  crawling.running =>
    /\ crawling.new_downloads_count = crawling.saved_files
    /\ crawling.new_downloads_count = Cardinality(dir.names)
    /\ crawling.new_downloads_count <= MAX_FIRMWARES_TO_DOWNLOAD
    /\ crawling.last_download \in {"raises", "nofile"} =>
         crawling.new_downloads_count < MAX_FIRMWARES_TO_DOWNLOAD

\* a crawl that has returned with the limit reached after two downloads
\* that left no file
C21_Witness ==
  /\ pc = Pos("ingest", 0)
  /\ crawling.running
  /\ crawling.new_downloads_count = MAX_FIRMWARES_TO_DOWNLOAD
  /\ crawling.visited = MAX_FIRMWARES_TO_DOWNLOAD + 2
  /\ Len(crawling.firmwares) = crawling.visited
  /\ \E i \in 1..Len(firmwares) : firmwares[i].local_file_path = ""

\* C22: once new_downloads_count has reached MAX_FIRMWARES_TO_DOWNLOAD no
\* step of the crawl processes a link: none is visited, no candidate is
\* appended and no file is saved, in the model the limit was reached in, in
\* a later model and in a later search.
C22_EarlyExit ==
  [][(crawling.running /\ crawling'.running
        /\ crawling.new_downloads_count >= MAX_FIRMWARES_TO_DOWNLOAD) =>
       /\ crawling'.visited = crawling.visited
       /\ crawling'.firmwares = crawling.firmwares
       /\ crawling'.new_downloads_count = crawling.new_downloads_count
       /\ dir' = dir]_vars

\* the limit was reached on the last link of the first model: the crawl
\* entered the second model, took none of its links and returned with two
\* searches left
C22_Witness ==
  /\ pc = Pos("ingest", 0)
  /\ crawling.running
  /\ crawling.new_downloads_count = MAX_FIRMWARES_TO_DOWNLOAD
  /\ crawling.visited = MAX_FIRMWARES_TO_DOWNLOAD
  /\ crawling.title = 2
  /\ crawling.link_idx = 0
  /\ crawling.search_idx = 1
  /\ Len(pages[1][2]) > 0
  /\ Len(pages) = 3

\* C23: the step after a download that failed processes the next link of
\* the model when there is one, and a crawl of a site with at least
\* MAX_FIRMWARES_TO_DOWNLOAD links that are new and whose download saves its
\* file returns with new_downloads_count = MAX_FIRMWARES_TO_DOWNLOAD.
C23_FailuresDoNotStop ==
  /\ [][(/\ pc = Pos("link", 0)
         /\ crawling.last_download \in {"raises", "nofile"}
         /\ crawling.link_idx < Len(pages[crawling.search_idx][crawling.title])) =>
          crawling'.visited = crawling.visited + 1]_vars
  /\ []((pc = Pos("ingest", 0) /\ crawling.running
           /\ Cardinality(NewSavedLinks) >= MAX_FIRMWARES_TO_DOWNLOAD) =>
          crawling.new_downloads_count = MAX_FIRMWARES_TO_DOWNLOAD)

\* a crawl that has returned with the limit reached after two downloads
\* that raised
C23_Witness ==
  /\ pc = Pos("ingest", 0)
  /\ crawling.running
  /\ crawling.new_downloads_count = MAX_FIRMWARES_TO_DOWNLOAD
  /\ crawling.visited = MAX_FIRMWARES_TO_DOWNLOAD + 2
  /\ Len(crawling.firmwares) = MAX_FIRMWARES_TO_DOWNLOAD
  /\ Cardinality(NewSavedLinks) = MAX_FIRMWARES_TO_DOWNLOAD

\* the integer segments of the version cores
SegmentsOf ==
  ("5.7.0" :> <<5, 7, 0>>) @@ ("5.7" :> <<5, 7>>) @@ ("12.0.3" :> <<12, 0, 3>>)
    @@ ("5.7.0.1" :> <<5, 7, 0, 1>>)

\* the build-date suffixes: _DDDDDD, _DDDDDDDD, and "build" with its digits
\* after a space or an underscore
DateSuffixes == {"", "_220123", "_20220123", " build 220123", "_build_220123"}

\* C25: parse_version strips a leading version marker and a build-date
\* suffix and returns the tuple of the integer segments:
\* "V5.7.0_220123" and "5.7.0 build 220123" both give (5, 7, 0), and a
\* string that cannot be parsed gives (0, 0, 0).
C25_ParseVersion ==
  op.name = "parse_version" =>
    /\ op.arg = "V5.7.0_220123" => op.ret = <<5, 7, 0>>
    /\ op.arg = "5.7.0 build 220123" => op.ret = <<5, 7, 0>>
    /\ op.arg = "garbage" => op.ret = <<0, 0, 0>>
    /\ \A m \in VersionMarkers, c \in VersionCores, x \in DateSuffixes :
         op.arg = m \o c \o x => op.ret = SegmentsOf[c]

\* the date the digits of a run stand for: YYYYMMDD or YYMMDD
RunDate(run) ==
  IF Len(run) = 8
    THEN SubSeq(run, 1, 4) \o "-" \o SubSeq(run, 5, 6) \o "-" \o SubSeq(run, 7, 8)
    ELSE "20" \o SubSeq(run, 1, 2) \o "-" \o SubSeq(run, 3, 4) \o "-" \o SubSeq(run, 5, 6)

\* C26: the date taken from a file name is that of its first run of six or
\* of eight digits: YYYYMMDD gives YYYY-MM-DD and YYMMDD gives 20YY-MM-DD,
\* at the directory pass, the release pass and the crawl.
C26_DateFromRun ==
  \A prefix \in DatePrefixes, run \in {r \in DateRuns : Len(r) \in {6, 8}} :
    /\ (op.name = "extract_date" /\ op.arg = NameWithRun(prefix, run)) =>
         op.ret = RunDate(run)
    /\ (op.name = "link_date" /\ op.arg.link_text = NameWithRun(prefix, run)) =>
         op.ret = RunDate(run)

\* C24: the total of the README is the number of entries of
\* firmwares_live.json plus the number of entries of firmwares_manual.json.
C24_ReadmeTotal ==
  op.name = "generate_readme" => op.ret.total_count = Len(op.fw) + Len(op.arg)

\* a date YYYY-MM-DD with a month and a day that exist
IsRealDate(date) ==
  /\ Len(date) = 10
  /\ \A i \in {1, 2, 3, 4, 6, 7, 9, 10} : Ch(date, i) \in Digits
  /\ Ch(date, 5) = "-" /\ Ch(date, 8) = "-"
  /\ DigitsValue(SubSeq(date, 6, 7)) \in 1..12
  /\ DigitsValue(SubSeq(date, 9, 10)) \in 1..31

\* a record with a date and a version to sort by
IsDated(f) == IsRealDate(f.date) /\ parse_version(f.version) # <<0, 0, 0>>

\* C27: the rows of a device are listed newest first, by date and then by
\* parsed version, both descending, and every record whose date is empty or
\* is no date, or whose version cannot be parsed, comes after all records
\* with a real date and version.
C27_NewestFirst ==
  op.name = "generate_readme" =>
    \A s \in 1..Len(op.ret.sections) :
      LET rows == op.ret.sections[s].rows
      IN  \A i, j \in 1..Len(rows) :
            i < j =>
              /\ ~IsDated(rows[i]) => ~IsDated(rows[j])
              /\ (IsDated(rows[i]) /\ IsDated(rows[j])) => ~SortKeyLess(rows[i], rows[j])

\* the ids that records of the catalog refer to
ReferencedIds == {firmwares_live[i].device_id : i \in 1..Len(firmwares_live)}

\* the ids that records naming a file of the firmware directory refer to
IdsWithFiles ==
  {firmwares_live[i].device_id :
     i \in {j \in 1..Len(firmwares_live) : firmwares_live[j].filename \in FirmwareFiles(dir)}}

C29_IngestAdditive ==
  [][(Call \in {"sync_github_releases", "sync_firmwares_directory"} /\ pc' = AfterCall) =>
       /\ Keys(firmwares_live) \subseteq Keys(firmwares_live')
       /\ DeviceIds(devices) \subseteq DeviceIds(devices')]_vars

\* the model and the version a pass takes for a file: from the release
\* notes where they name the file, else from the file name
CandidateModel(pass, filename) ==
  IF pass = "sync_github_releases" /\ filename \in DOMAIN releases.info
    THEN releases.info[filename].model
    ELSE extract_model(filename)

CandidateVersion(pass, filename) ==
  IF pass = "sync_github_releases" /\ filename \in DOMAIN releases.info
    THEN releases.info[filename].version
    ELSE VersionFromFilename(filename)

\* the candidates of a pass that have both a model and a version
CompleteCandidates(pass) ==
  {f \in (IF pass = "sync_github_releases" THEN ReleaseFilenames(releases)
          ELSE FirmwareFiles(dir)) :
     CandidateModel(pass, f) # "" /\ CandidateVersion(pass, f) # ""}

\* the records of the catalog under keys the operation did not find
CreatedRecords == {r \in Range(firmwares_live) : r.key \notin Keys(op.fw)}

\* the records the operation found and left with other fields
ModifiedRecords == {r \in Range(firmwares_live) : r.key \in Keys(op.fw) /\ r \notin Range(op.fw)}

\* C30: no ingest path creates a record or allocates a device for a
\* candidate without a model or without a version. process_firmware leaves
\* the catalog and the device table as they were for such a candidate; every
\* record and every device a pass over the directory or the release assets
\* creates is that of a file with both a model and a version; and a file
\* without one of them, that matches no record by its version, changes no
\* record.
C30_IncompleteSkipped ==
  /\ (op.name = "process_firmware" /\ (op.arg.model = "" \/ op.arg.version = "")) =>
       firmwares_live = op.fw /\ devices = op.dev
  /\ op.name \in {"sync_firmwares_directory", "sync_github_releases"} =>
       /\ \A r \in CreatedRecords :
            \E f \in CompleteCandidates(op.name) :
              /\ r.filename = f
              /\ r.model = CandidateModel(op.name, f)
              /\ r.version = CandidateVersion(op.name, f)
       /\ \A d \in Range(devices) \ Range(op.dev) :
            \E f \in CompleteCandidates(op.name) : d.model = CandidateModel(op.name, f)
       /\ (CompleteCandidates(op.name) = {}
             /\ \A i \in 1..Len(op.arg) : VersionMatchIndex(op.fw, op.arg[i]) = 0) =>
            /\ ModifiedRecords = {}
            /\ CreatedRecords = {}
            /\ devices = op.dev

\* a pass over a directory that holds a file without a model and a file
\* without a version, and nothing else, has left the catalog and the device
\* table as it found them
C30_Witness ==
  /\ op.name = "sync_firmwares_directory"
  /\ dir.names = {FILE_ANON, FILE_NOVERSION}
  /\ Len(op.arg) = 2
  /\ VersionMatchIndex(op.fw, FILE_ANON) = 0
  /\ \A r \in Range(op.fw) : r.filename \notin dir.names
  /\ firmwares_live = op.fw
  /\ devices = op.dev
  /\ Len(op.fw) > 0

\* the records a release of the files op.arg was written from, when they were
\* read from the document op.fw
PublishedRecords ==
  {r \in Range(op.fw) : r.filename \in Range(op.arg) /\ r.model # "UNKNOWN"}

\* C31: the body generate_release_body writes for a record with a known
\* model M, version V, date D and file F is read back by
\* sync_github_releases as F -> (M, V, D), and the record it creates for F
\* holds that model, version and date.
C31_NotesRoundTrip ==
  /\ op.name = "generate_release_body" =>
       \A r \in PublishedRecords :
         /\ r.filename \in DOMAIN releases.info
         /\ releases.info[r.filename] =
              [model |-> r.model, version |-> r.version, date |-> r.date]
  /\ (op.name = "sync_github_releases" /\ op.prev_name = "generate_release_body") =>
       \A r \in {q \in Range(disk.fw) : q.filename \in Range(op.prev_arg)} :
         \E s \in Range(firmwares_live) :
           /\ s.filename = r.filename
           /\ s.model = r.model
           /\ s.version = r.version
           /\ s.date = r.date

\* C32: manual records are exempt from evidence cleanup: when a cleanup pass
\* (cleanup_unknown_entries, cleanup_failed_downloads) has run, every record
\* whose source is manual is still in the catalog, with the fields it had.
C32_ManualExempt ==
  op.name \in {"cleanup_unknown_entries", "cleanup_failed_downloads"} =>
     \A i \in 1..Len(op.fw) :
        op.fw[i].source = "manual" => op.fw[i] \in Range(firmwares_live)

\* every record of the catalog names a device of the device table
Referenced(cat, devs) ==
  \A i \in 1..Len(cat) : cat[i].device_id \in DeviceIds(devs)

\* C33: referential integrity: when cleanup_empty_devices or
\* cleanup_blank_devices has run on documents in which the device_id of every
\* record names a device of the device table, the device_id of every record
\* that remains, of firmwares_live.json and of firmwares_manual.json, names a
\* device that is still there.
C33_Integrity ==
  op.name \in {"cleanup_empty_devices", "cleanup_blank_devices"} =>
     /\ Referenced(firmwares_live, devices)
     /\ Referenced(disk.manual, devices)

\* no two records of the catalog have the same non-empty filename
FilenamesDistinct(cat) ==
  \A i, j \in 1..Len(cat) :
     (i # j /\ cat[i].filename # "") => cat[i].filename # cat[j].filename

\* C34: no file is claimed by two records: when no two records share a
\* non-empty filename before a cleanup pass, filename re-matching by version
\* included, no two records share one after it.
C34_OneClaimant ==
  (op.name \in {"cleanup_unknown_entries", "cleanup_failed_downloads"}
     /\ FilenamesDistinct(op.fw)) => FilenamesDistinct(firmwares_live)

\* the key of a record's own fields
OwnKey(rec) == rec.model \o "_" \o rec.hardware_version \o "_" \o rec.version

\* C35: key consistency: every record that a step puts into the catalog
\* (process_firmware, sync_firmwares_directory, sync_github_releases) is
\* stored under model + "_" + hardware_version + "_" + version of its own
\* fields, and no step changes the model, the hardware_version or the version
\* of a record that stays.
C35_KeyConsistency ==
  [][\A i \in 1..Len(firmwares_live') :
       LET rec == firmwares_live'[i]
       IN  /\ rec.key \notin Keys(firmwares_live) => rec.key = OwnKey(rec)
           /\ \A j \in 1..Len(firmwares_live) :
                firmwares_live[j].key = rec.key =>
                  /\ firmwares_live[j].model = rec.model
                  /\ firmwares_live[j].hardware_version = rec.hardware_version
                  /\ firmwares_live[j].version = rec.version]_vars

\* a run has put a record of each ingest path into the catalog
C35_Witness ==
  /\ prog # "none"
  /\ \E i \in 1..Len(firmwares_live) :
       /\ firmwares_live[i].key \notin Keys(origin.disk.fw)
       /\ firmwares_live[i].source = "live"
  /\ \E i \in 1..Len(firmwares_live) :
       /\ firmwares_live[i].key \notin Keys(origin.disk.fw)
       /\ firmwares_live[i].source \in {"directory_sync", "github_releases_sync"}

\* C36: every download counted as successful for a link with a version leads
\* to a catalog record: when the crawl has returned, the deduplicated list
\* holds, for every key downloaded in the run, a candidate of that key with a
\* local_file_path, which process_firmware ingests.
C36_DownloadIngested ==
  (pc = Pos("ingest", 0) /\ crawling.running) =>
     \A key \in crawling.downloaded_in_this_run :
        \E i \in 1..Len(firmwares) :
           /\ CandidateKey(firmwares[i]) = key
           /\ firmwares[i].local_file_path # ""

\* the links of the model title before the i-th whose download succeeded
\* and that have the key of the i-th
SavedBefore(links, i) ==
  {j \in 1..(i - 1) : /\ links[j].download = "saved"
                      /\ LinkKey(links[j].link) = LinkKey(links[i].link)}

\* C37: the crawl starts a download for a link only if its key
\* model_hardwareVersion_version is not in the catalog and has not been
\* downloaded successfully earlier in the run.
C37_DownloadOnce ==
  [][(/\ pc = Pos("link", 0)
      /\ crawling'.visited = crawling.visited + 1
      /\ crawling'.last_download \in Downloads) =>
        LET links == pages[crawling.search_idx][crawling.title]
            i == crawling.link_idx + 1
        IN  /\ LinkKey(links[i].link) \notin Keys(firmwares_live)
            /\ SavedBefore(links, i) = {}]_vars

====
